---- MODULE Spec2Model ----
(***************************************************************************)
(* A model of lexical-core's string <-> number conversions.                *)
(*                                                                         *)
(* Byte strings are sequences of ASCII codes.  A slice is a record         *)
(* [ptr, data]: the address of its first byte and its bytes, so that the   *)
(* pointer arithmetic of the parsers (as_ptr, distance, sub-slicing) is    *)
(* modelled as the code performs it.  Integers are modelled for the 8-bit  *)
(* and 16-bit types, floats for f32 (sign and magnitude bits apart).       *)
(***************************************************************************)
EXTENDS Integers, Sequences, FiniteSets, TLC

VARIABLES
    api,        \* which conversion family the run exercises
    ty,         \* the numeric type parameter of the call
    radix,      \* the radix of the options
    format,     \* the number format of the options
    bytes,      \* the caller's input buffer (sequence of ASCII codes)
    value,      \* the number handed to the writer, or the fields handed to a builder
    partial,    \* result of parse_partial on bytes, or Null
    complete    \* result of parse on bytes, or Null

vars == <<api, ty, radix, format, bytes, value, partial, complete>>

Null == [tag |-> "Null"]

\* ------------------------------------------------------------------------
\* Bounds of the model.
\* ------------------------------------------------------------------------

\* Longest exhaustively enumerated decimal integer input.
MaxLen == 4
\* Longest exhaustively enumerated digit string for the non-decimal radices.
MaxRadixLen == 2
\* Longest exhaustively enumerated float input.
MaxFloatLen == 4
\* Address at which the caller's buffer starts.
BufferAddress == 64

\* ------------------------------------------------------------------------
\* ASCII and slices.
\* ------------------------------------------------------------------------

ASCII ==
    [plus |-> 43, minus |-> 45, dot |-> 46, zero |-> 48, nine |-> 57,
     A |-> 65, Z |-> 90, caret |-> 94, a |-> 97, z |-> 122]

\* All sequences over S of length at most n.
RECURSIVE SeqsUpTo(_, _)
SeqsUpTo(S, n) ==
    IF n = 0 THEN {<<>>}
    ELSE LET shorter == SeqsUpTo(S, n - 1)
         IN  shorter \cup {Append(s, c) : s \in {t \in shorter : Len(t) = n - 1}, c \in S}

\* &bytes[..] of the caller's buffer.
as_slice(b) == [ptr |-> BufferAddress, data |-> b]
as_ptr(s) == s.ptr
is_empty(s) == Len(s.data) = 0
\* &s[n..]
slice_from(s, n) == [ptr |-> s.ptr + n, data |-> SubSeq(s.data, n + 1, Len(s.data))]
\* One past the last byte of the slice.
end_ptr(s) == s.ptr + Len(s.data)
\* The byte at address p of slice s.
byte_at(s, p) == s.data[p - s.ptr + 1]
distance(first, last) == last - first

\* ------------------------------------------------------------------------
\* Results.
\* ------------------------------------------------------------------------

Ok(v) == [tag |-> "Ok", value |-> v]
OkAt(v, p) == [tag |-> "OkAt", value |-> v, index |-> p]
Err(code, p) == [tag |-> "Err", code |-> code, index |-> p]

is_ok(r) == r.tag \in {"Ok", "OkAt"}
is_err(r) == r.tag = "Err"

\* ------------------------------------------------------------------------
\* Digits.
\* ------------------------------------------------------------------------

DIGIT_TO_CHAR ==
    <<48, 49, 50, 51, 52, 53, 54, 55, 56, 57, 65, 66, 67, 68, 69, 70,
      71, 72, 73, 74, 75, 76, 77, 78, 79, 80, 81, 82, 83, 84, 85, 86,
      87, 88, 89, 90>>

\* A digit character computed as for the decimal digits, without the table.
digit_to_char_decimal(digit) == ASCII.zero + digit

digit_to_char(digit) == DIGIT_TO_CHAR[digit + 1]

\* The value of byte c as a digit in the radix, or -1 when it is none.
to_digit(c, r) ==
    LET digit == IF c >= ASCII.zero /\ c <= ASCII.nine THEN c - ASCII.zero
                 ELSE IF c >= ASCII.a /\ c <= ASCII.z THEN c - ASCII.a + 10
                 ELSE IF c >= ASCII.A /\ c <= ASCII.Z THEN c - ASCII.A + 10
                 ELSE 36
    IN  IF digit < r THEN digit ELSE -1

is_digit(c, r) == to_digit(c, r) >= 0

to_ascii_lowercase(c) == IF c >= ASCII.A /\ c <= ASCII.Z THEN c + 32 ELSE c

\* ------------------------------------------------------------------------
\* Number format: the flags and the punctuation characters packed in one
\* word, a character in seven bits.
\* ------------------------------------------------------------------------

\* to_flags! then from_flags!: the character under the seven-bit mask.
from_flags(ch) == ch % 128

NumberFormat(flags, digit_separator, decimal_point, exponent_decimal, exponent_backup) ==
    [flags            |-> flags,
     digit_separator  |-> from_flags(digit_separator),
     decimal_point    |-> from_flags(decimal_point),
     exponent_decimal |-> from_flags(exponent_decimal),
     exponent_backup  |-> from_flags(exponent_backup)]

\* Digits required after the exponent character, no digit separator, '.',
\* 'e' and '^'.
STANDARD == NumberFormat({"REQUIRED_EXPONENT_DIGITS"}, 0, 46, 101, 94)

\* NumberFormat::from_separator(ch) | flags
from_separator(ch, flags) ==
    NumberFormat(STANDARD.flags \cup flags, ch, STANDARD.decimal_point, STANDARD.exponent_decimal,
                 STANDARD.exponent_backup)

is_ascii(ch) == ch < 128
is_ascii_digit(ch) == ch >= ASCII.zero /\ ch <= ASCII.nine
is_ascii_letter(ch) == to_ascii_lowercase(ch) >= ASCII.a /\ to_ascii_lowercase(ch) <= ASCII.z
is_sign(ch) == ch \in {ASCII.plus, ASCII.minus}

\* Determine if the exponent decimal character is valid.
is_valid_exponent_decimal(ch) ==
    IF is_ascii_digit(ch) THEN FALSE
    ELSE IF is_sign(ch) THEN FALSE
    ELSE is_ascii(ch)

\* Determine if the digit separator is valid; letters are digits of a
\* radix when the power_of_two feature is built.
is_valid_digit_separator(ch, power_of_two) ==
    IF power_of_two /\ is_ascii_letter(ch) THEN FALSE
    ELSE IF is_ascii_digit(ch) THEN FALSE
    ELSE IF is_sign(ch) THEN FALSE
    ELSE is_ascii(ch)

is_valid_decimal_point(ch, power_of_two) == is_valid_digit_separator(ch, power_of_two)

is_valid_exponent_backup(ch, power_of_two) == is_valid_digit_separator(ch, power_of_two)

\* A check of the digit separator against the other characters alone.
is_valid_punctuation_separator(digit_separator, decimal_point, exponent_decimal, exponent_backup) ==
    IF digit_separator = decimal_point THEN FALSE
    ELSE IF digit_separator = exponent_decimal THEN FALSE
    ELSE IF digit_separator = exponent_backup THEN FALSE
    ELSE TRUE

\* Determine if all of the "punctuation" characters are valid.
is_valid_punctuation(digit_separator, decimal_point, exponent_decimal, exponent_backup) ==
    IF digit_separator = decimal_point THEN FALSE
    ELSE IF digit_separator = exponent_decimal THEN FALSE
    ELSE IF digit_separator = exponent_backup THEN FALSE
    ELSE IF decimal_point = exponent_decimal THEN FALSE
    ELSE IF decimal_point = exponent_backup THEN FALSE
    ELSE TRUE

None == [tag |-> "None"]
Some(v) == [tag |-> "Some", value |-> v]

\* The builder of a number format: the format of the fields when each
\* punctuation character is valid and the four are valid together.
build_format(b) ==
    IF /\ is_valid_digit_separator(b.digit_separator, b.power_of_two)
       /\ is_valid_decimal_point(b.decimal_point, b.power_of_two)
       /\ is_valid_exponent_decimal(b.exponent_decimal)
       /\ is_valid_exponent_backup(b.exponent_backup, b.power_of_two)
       /\ is_valid_punctuation(b.digit_separator, b.decimal_point,
                               b.exponent_decimal, b.exponent_backup)
    THEN Some(NumberFormat(b.flags, b.digit_separator, b.decimal_point,
                           b.exponent_decimal, b.exponent_backup))
    ELSE None

\* ------------------------------------------------------------------------
\* Integer types.
\* ------------------------------------------------------------------------

IntTypes == {"u8", "i8", "u16", "i16"}

IS_SIGNED(t) == t \in {"i8", "i16"}
min_value(t) ==
    CASE t = "u8" -> 0 [] t = "i8" -> -128 [] t = "u16" -> 0 [] t = "i16" -> -32768
max_value(t) ==
    CASE t = "u8" -> 255 [] t = "i8" -> 127 [] t = "u16" -> 65535 [] t = "i16" -> 32767

\* ------------------------------------------------------------------------
\* Integer parser.
\* ------------------------------------------------------------------------

\* The optional sign of an integer: '+' always, '-' for signed types only.
\* Gives the sign and the slice after it.
parse_sign_integer(t, s) ==
    IF is_empty(s) THEN <<"Positive", s>>
    ELSE IF s.data[1] = ASCII.plus THEN <<"Positive", slice_from(s, 1)>>
    ELSE IF s.data[1] = ASCII.minus /\ IS_SIGNED(t) THEN <<"Negative", slice_from(s, 1)>>
    ELSE <<"Positive", s>>

\* The digit loop: value = value * radix (+|-) digit with checked arithmetic.
\* Stops at the first byte that is no digit and returns its address.
RECURSIVE parse_digits(_, _, _, _, _, _)
parse_digits(t, digits, r, sign, p, acc) ==
    IF p = end_ptr(digits) THEN OkAt(acc, p)
    ELSE LET digit == to_digit(byte_at(digits, p), r)
             next  == IF sign = "Positive" THEN acc * r + digit ELSE acc * r - digit
         IN  IF digit < 0 THEN OkAt(acc, p)
             ELSE IF next > max_value(t) THEN Err("Overflow", p)
             ELSE IF next < min_value(t) THEN Err("Underflow", p)
             ELSE parse_digits(t, digits, r, sign, p + 1, next)

standalone_no_separator(t, s, r) ==
    LET signed == parse_sign_integer(t, s)
        sign   == signed[1]
        digits == signed[2]
    IN  IF is_empty(digits) THEN Err("Empty", as_ptr(digits))
        ELSE parse_digits(t, digits, r, sign, as_ptr(digits), 0)

\* atoi!: run the parser and turn the pointer it returns into an index.
\* An index that counts the byte the parser stopped at as consumed.
atoi_index_past(s, ptr) == distance(as_ptr(s), ptr) + 1

atoi_index(s, ptr) == distance(as_ptr(s), ptr)

\* A wrapper that parses with the default radix, whatever the options hold.
atoi_default_radix(t, s, r) ==
    LET res == standalone_no_separator(t, s, 10)
    IN  IF is_ok(res) THEN OkAt(res.value, atoi_index(s, res.index))
        ELSE Err(res.code, atoi_index(s, res.index))

atoi(t, s, r) ==
    LET res == standalone_no_separator(t, s, r)
    IN  IF is_ok(res) THEN OkAt(res.value, atoi_index(s, res.index))
        ELSE Err(res.code, atoi_index(s, res.index))

\* A completion that reports trailing bytes at the end of the input.
to_complete_at_end(res, len) ==
    IF is_err(res) THEN res
    ELSE IF res.index = len THEN Ok(res.value)
    ELSE Err("InvalidDigit", len)

\* A completion that accepts trailing bytes.
to_complete_lenient(res, len) ==
    IF is_err(res) THEN res ELSE Ok(res.value)

\* to_complete!: a partial parser made complete.
to_complete(res, len) ==
    IF is_err(res) THEN res
    ELSE IF res.index = len THEN Ok(res.value)
    ELSE Err("InvalidDigit", res.index)

\* A partial integer parser that rejects trailing bytes.
atoi_partial_strict(t, b, r) ==
    LET res == atoi(t, as_slice(b), r)
    IN  IF is_err(res) THEN res
        ELSE IF res.index = Len(b) THEN res
        ELSE Err("InvalidDigit", res.index)

\* FromLexical for the integer types, with the radix of the options.
atoi_partial(t, b, r) == atoi(t, as_slice(b), r)
atoi_complete(t, b, r) == to_complete(atoi(t, as_slice(b), r), Len(b))

\* ------------------------------------------------------------------------
\* Big integers: little-endian limbs, no high zero limb (zero is <<>>).
\* ------------------------------------------------------------------------

\* Operands that are computed values are bound as variables of a set
\* constructor, so that each is computed once; carries are looked ahead
\* instead of rippled, so that no operation recurses over the limbs.

LimbBits == 15
LimbBase == 2^LimbBits

\* The element of a singleton set.
Only(S) == CHOOSE x \in S : TRUE

Max(x, y) == IF x >= y THEN x ELSE y

\* Number of bits of a non-negative machine integer.
RECURSIVE bits_of(_)
bits_of(n) == IF n = 0 THEN 0 ELSE 1 + bits_of(n \div 2)

\* Limb i of x, zero beyond its length.
limb(x, i) == IF i >= 1 /\ i <= Len(x) THEN x[i] ELSE 0

\* Drop the high zero limbs.
normalize(x) ==
    Only({IF \A i \in 1..Len(xv) : xv[i] = 0 THEN <<>>
          ELSE SubSeq(xv, 1, CHOOSE i \in 1..Len(xv) :
                               xv[i] # 0 /\ \A j \in (i + 1)..Len(xv) : xv[j] = 0)
          : xv \in {x}})

from_u32(n) ==
    normalize(<<n % LimbBase, (n \div LimbBase) % LimbBase, n \div (LimbBase * LimbBase)>>)

\* Whether the limbs below i of x + y carry into limb i.
carry_into(x, y, i) ==
    \E k \in 1..(i - 1) :
        /\ limb(x, i - k) + limb(y, i - k) >= LimbBase
        /\ \A m \in 1..(k - 1) : limb(x, i - m) + limb(y, i - m) = LimbBase - 1

iadd(x, y) ==
    normalize(Only({[i \in 1..(Max(Len(xv), Len(yv)) + 1) |->
                        (limb(xv, i) + limb(yv, i)
                            + (IF carry_into(xv, yv, i) THEN 1 ELSE 0)) % LimbBase]
                    : xv \in {x}, yv \in {y}}))

\* Whether the limbs below i of x - y borrow from limb i.
borrow_from(x, y, i) ==
    \E k \in 1..(i - 1) :
        /\ limb(x, i - k) < limb(y, i - k)
        /\ \A m \in 1..(k - 1) : limb(x, i - m) = limb(y, i - m)

\* x - y for x >= y.
isub(x, y) ==
    normalize(Only({[i \in 1..Len(xv) |->
                        (xv[i] - limb(yv, i)
                            - (IF borrow_from(xv, yv, i) THEN 1 ELSE 0) + LimbBase) % LimbBase]
                    : xv \in {x}, yv \in {y}}))

\* x * y for a small y: the low halves of the limb products plus their high
\* halves one limb up.
imul_small(x, y) ==
    Only({iadd([i \in 1..Len(xv) |-> (xv[i] * y) % LimbBase],
               <<0>> \o [i \in 1..Len(xv) |-> (xv[i] * y) \div LimbBase])
          : xv \in {x}})

\* x * y + z for small y and z.
imul_add_small(x, y, z) == iadd(imul_small(x, y), from_u32(z))

\* The largest n with radix^n below the limb base.
RECURSIVE small_power_limit(_, _)
small_power_limit(r, p) == IF p * r >= LimbBase THEN 0 ELSE 1 + small_power_limit(r, p * r)

\* x * radix^n, by limb-sized powers of the radix: half of them, then the
\* other half.
RECURSIVE imul_power(_, _, _)
imul_power(x, r, n) ==
    IF n <= small_power_limit(r, 1) THEN imul_small(x, r^n)
    ELSE Only({imul_power(half, r, n - (n \div 2)) : half \in {imul_power(x, r, n \div 2)}})

\* x * 2^n
ishl(x, n) ==
    Only({IF xv = <<>> THEN xv ELSE [i \in 1..(n \div LimbBits) |-> 0] \o xv
          : xv \in {imul_small(x, 2^(n % LimbBits))}})

\* x / 2, rounding down.
ishr1(x) ==
    normalize(Only({[i \in 1..Len(xv) |-> (xv[i] \div 2) + (limb(xv, i + 1) % 2) * (LimbBase \div 2)]
                    : xv \in {x}}))

bit_length(x) ==
    Only({IF xv = <<>> THEN 0 ELSE LimbBits * (Len(xv) - 1) + bits_of(xv[Len(xv)])
          : xv \in {x}})

\* The sign of x - y.
compare(x, y) ==
    Only({IF Len(xv) > Len(yv) THEN 1
          ELSE IF Len(xv) < Len(yv) THEN -1
          ELSE IF xv = yv THEN 0
          ELSE IF \E i \in 1..Len(xv) :
                      xv[i] > yv[i] /\ \A j \in (i + 1)..Len(xv) : xv[j] = yv[j]
               THEN 1
          ELSE -1
          : xv \in {x}, yv \in {y}})

greater_equal(x, y) == compare(x, y) >= 0

\* One bit of the quotient: the remainder r, the divisor times a power of
\* two t and the quotient q after it.
quotient_bit(s) ==
    IF greater_equal(s.r, s.t)
    THEN [r |-> isub(s.r, s.t), t |-> ishr1(s.t), q |-> 2 * s.q + 1]
    ELSE [r |-> s.r, t |-> ishr1(s.t), q |-> 2 * s.q]

\* The next k bits of the quotient: half of them, then the other half.
RECURSIVE quotient_bits(_, _)
quotient_bits(s, k) ==
    IF k = 1 THEN Only({quotient_bit(sv) : sv \in {s}})
    ELSE Only({quotient_bits(half, k - (k \div 2)) : half \in {quotient_bits(s, k \div 2)}})

\* The quotient of r by d = t / 2^i, for a quotient below 2^(i+1) after the
\* bits q, and whether a remainder is left: bit by bit, from the highest.
div_small_quotient(r, t, i, q) ==
    Only({<<s.q, s.r # <<>>>> : s \in {quotient_bits([r |-> r, t |-> t, q |-> q], i + 1)}})

\* ------------------------------------------------------------------------
\* f32 and the extended-precision float.
\* ------------------------------------------------------------------------

MANTISSA_SIZE == 23
EXPONENT_BIAS == 150
DENORMAL_EXPONENT == -149
MAX_EXPONENT == 105
HIDDEN_BIT_MASK == 2^23
MANTISSA_MASK == 2^23 - 1
INFINITY_BITS == 255 * 2^23
NAN_BITS == 511 * 2^22

\* A float is its sign and the bits of its magnitude.
Float(neg, bits) == [neg |-> neg, bits |-> bits]
ZERO == Float(FALSE, 0)
INFINITY == Float(FALSE, INFINITY_BITS)
NAN == Float(FALSE, NAN_BITS)
negate(f) == Float(~f.neg, f.bits)

ExtendedFloat(mant, exp) == [mant |-> mant, exp |-> exp]

\* An export that gives every float the biased exponent of a normal float.
into_float_normal(fp) ==
    IF fp.mant = 0 \/ fp.exp < DENORMAL_EXPONENT THEN ZERO
    ELSE IF fp.exp >= MAX_EXPONENT THEN Float(FALSE, INFINITY_BITS)
    ELSE Float(FALSE, (fp.mant % (MANTISSA_MASK + 1)) + ((fp.exp + EXPONENT_BIAS) * 2^MANTISSA_SIZE))

\* An export whose overflow test lets the first overflowing exponent through.
into_float_inclusive(fp) ==
    IF fp.mant = 0 \/ fp.exp < DENORMAL_EXPONENT THEN ZERO
    ELSE IF fp.exp > MAX_EXPONENT THEN Float(FALSE, INFINITY_BITS)
    ELSE LET exp  == IF fp.exp = DENORMAL_EXPONENT /\ fp.mant \div HIDDEN_BIT_MASK % 2 = 0
                     THEN 0
                     ELSE fp.exp + EXPONENT_BIAS
             mant == fp.mant % (MANTISSA_MASK + 1)
         IN  Float(FALSE, mant + exp * 2^MANTISSA_SIZE)

\* Export extended-precision float to native float.
into_float(fp) ==
    IF fp.mant = 0 \/ fp.exp < DENORMAL_EXPONENT THEN ZERO
    ELSE IF fp.exp >= MAX_EXPONENT THEN Float(FALSE, INFINITY_BITS)
    ELSE LET exp  == IF fp.exp = DENORMAL_EXPONENT /\ fp.mant \div HIDDEN_BIT_MASK % 2 = 0
                     THEN 0
                     ELSE fp.exp + EXPONENT_BIAS
             mant == fp.mant % (MANTISSA_MASK + 1)
         IN  Float(FALSE, mant + exp * 2^MANTISSA_SIZE)

\* floor(log2(n / d)) for n, d > 0.
floor_log2(n, d) ==
    Only({IF k >= 0
          THEN (IF greater_equal(n, ishl(d, k)) THEN k ELSE k - 1)
          ELSE (IF greater_equal(ishl(n, -k), d) THEN k ELSE k - 1)
          : k \in {bit_length(n) - bit_length(d)}})

\* floor(n / (d * 2^s)) below 2^(MANTISSA_SIZE + 2), and whether a remainder
\* is left.
div_pow2(n, d, s) ==
    Only({div_small_quotient(r, t, MANTISSA_SIZE + 1, 0)
          : r \in {IF s < 0 THEN ishl(n, -s) ELSE n},
            t \in {ishl(d, MANTISSA_SIZE + 1 + (IF s > 0 THEN s ELSE 0))}})

\* Round the quotient, which carries one bit more than the mantissa, with the
\* remainder flag to the nearest mantissa, ties to even.
round_half_even(qr, exp) ==
    Only({IF mant = 2 * HIDDEN_BIT_MASK THEN ExtendedFloat(HIDDEN_BIT_MASK, ev + 1)
          ELSE ExtendedFloat(mant, ev)
          : mant \in {Only({IF q[1] % 2 = 1 /\ (q[2] \/ (q[1] \div 2) % 2 = 1)
                            THEN q[1] \div 2 + 1
                            ELSE q[1] \div 2 : q \in {qr}})},
            ev \in {exp}})

\* The extended float nearest to n / d (ties to even) on the grid of the
\* type: 24 significant bits, or steps of 2^DENORMAL_EXPONENT below that.
round_to_grid(n, d, exp) == round_half_even(div_pow2(n, d, exp - 1), exp)

round_nearest_tie_even(n, d) ==
    Only({round_to_grid(nv, dv, Max(floor_log2(nv, dv) - MANTISSA_SIZE, DENORMAL_EXPONENT))
          : nv \in {n}, dv \in {d}})

\* ------------------------------------------------------------------------
\* Float parser: the components of the number.
\* ------------------------------------------------------------------------

DEFAULT_EXPONENT_CHAR == 101
DEFAULT_EXPONENT_BACKUP_CHAR == 94
DEFAULT_DECIMAL_POINT == 46
\* "inf", "infinity" and "NaN".
DEFAULT_INF_STRING == <<105, 110, 102>>
DEFAULT_INFINITY_STRING == <<105, 110, 102, 105, 110, 105, 116, 121>>
DEFAULT_NAN_STRING == <<78, 97, 78>>

\* &s[..n]
slice_to(s, n) == [ptr |-> s.ptr, data |-> SubSeq(s.data, 1, n)]

\* first() of a slice, or -1 for none.
first(s) == IF is_empty(s) THEN -1 ELSE s.data[1]

\* The number of leading bytes of the slice that are digits of the radix.
digit_count(s, r) ==
    CHOOSE n \in 0..Len(s.data) :
        /\ \A i \in 1..n : is_digit(s.data[i], r)
        /\ n = Len(s.data) \/ ~is_digit(s.data[n + 1], r)

\* Consume digits until a non-digit character is found: the digits and the rest.
consume_digits(s, r) == Only({<<slice_to(s, n), slice_from(s, n)>> : n \in {digit_count(s, r)}})

\* The exponent character of the format for the radix.
exponent(r) == IF r >= 15 THEN DEFAULT_EXPONENT_BACKUP_CHAR ELSE DEFAULT_EXPONENT_CHAR

I32_MAX == 2147483647
I32_MIN == -I32_MAX - 1

saturating_add(x, y) ==
    IF y > 0 /\ x > I32_MAX - y THEN I32_MAX
    ELSE IF y < 0 /\ x < I32_MIN - y THEN I32_MIN
    ELSE x + y

saturating_sub(x, y) == saturating_add(x, -y)

\* The exponent digits accumulated into an i32 that saturates.
RECURSIVE parse_digits_exponent(_, _, _, _, _)
parse_digits_exponent(digits, r, sign, i, acc) ==
    IF i > Len(digits) THEN acc
    ELSE Only({parse_digits_exponent(digits, r, sign, i + 1, next)
               : next \in {IF sign = "Positive"
                           THEN (IF acc > (I32_MAX - to_digit(digits[i], r)) \div r
                                 THEN I32_MAX ELSE acc * r + to_digit(digits[i], r))
                           ELSE (IF acc < -((I32_MAX - to_digit(digits[i], r)) \div r)
                                 THEN I32_MIN ELSE acc * r - to_digit(digits[i], r))}})

\* The sign of the mantissa or of the exponent: the sign and the rest.
parse_sign_float(s) ==
    IF first(s) = ASCII.plus THEN <<"Positive", slice_from(s, 1)>>
    ELSE IF first(s) = ASCII.minus THEN <<"Negative", slice_from(s, 1)>>
    ELSE <<"Positive", s>>

\* Extract and parse the exponent substring: the byte after the marker, an
\* optional sign, digits.  Gives the exponent digits, the raw exponent and the
\* rest.  Without a digit the exponent is the empty slice after the marker.
extract_exponent(s, r) ==
    Only({Only({IF is_empty(split[1])
                THEN [exponent |-> slice_to(signed[3], 0), raw_exponent |-> 0,
                      rest |-> signed[3]]
                ELSE [exponent |-> split[1],
                      raw_exponent |-> parse_digits_exponent(split[1].data, r, signed[1], 1, 0),
                      rest |-> split[2]]
                : split \in {consume_digits(signed[2], r)}})
          : signed \in {parse_sign_float(slice_from(s, 1)) \o <<slice_from(s, 1)>>}})

\* The mantissa needs a digit in the integer or in the fraction.
validate_mantissa(data) ==
    IF is_empty(data.integer) /\ (data.fraction = None \/ is_empty(data.fraction))
    THEN Err("EmptyMantissa", as_ptr(data.integer))
    ELSE Ok(TRUE)

\* A validation that accepts an exponent without a digit.
validate_exponent_lenient(data) == Ok(TRUE)

\* An exponent that is present needs a digit.
validate_exponent(data) ==
    IF data.exponent # None /\ is_empty(data.exponent)
    THEN Err("EmptyExponent", as_ptr(data.exponent))
    ELSE Ok(TRUE)

\* The number of leading zero bytes.
leading_zeros(b) ==
    CHOOSE n \in 0..Len(b) :
        (\A i \in 1..n : b[i] = ASCII.zero) /\ (n = Len(b) \/ b[n + 1] # ASCII.zero)

\* The number of trailing zero bytes.
trailing_zeros(b) ==
    CHOOSE n \in 0..Len(b) :
        /\ \A i \in 1..n : b[Len(b) + 1 - i] = ASCII.zero
        /\ n = Len(b) \/ b[Len(b) - n] # ASCII.zero

\* Trim leading 0s: the trimmed slice and the number of bytes trimmed.
ltrim_zero(s) == <<slice_from(s, leading_zeros(s.data)), leading_zeros(s.data)>>

\* Trim trailing 0s: the trimmed slice and the number of bytes trimmed.
rtrim_zero(s) == <<slice_to(s, Len(s.data) - trailing_zeros(s.data)), trailing_zeros(s.data)>>

\* A post-process that trims the integer alone.
trim_integer(data) == [data EXCEPT !.integer = ltrim_zero(data.integer)[1]]

\* Post-process float to trim leading and trailing 0s.
trim(data) ==
    [data EXCEPT !.integer = ltrim_zero(data.integer)[1],
                 !.fraction = IF data.fraction = None THEN None
                              ELSE rtrim_zero(data.fraction)[1]]

\* A validation that examines the exponent before the mantissa.
extract_validate_exponent_first(data, ptr) ==
    IF is_err(validate_exponent(data)) THEN validate_exponent(data)
    ELSE IF is_err(validate_mantissa(data)) THEN validate_mantissa(data)
    ELSE [tag |-> "Ok", data |-> trim(data), ptr |-> ptr]

\* Validate the extracted components, then trim them: the components and
\* the address of the first byte that is not part of the number.
extract_validate(data, ptr) ==
    IF is_err(validate_mantissa(data)) THEN validate_mantissa(data)
    ELSE IF is_err(validate_exponent(data)) THEN validate_exponent(data)
    ELSE [tag |-> "Ok", data |-> trim(data), ptr |-> ptr]

\* Extract float subcomponents from input bytes: the components and the
\* address of the first byte that is not part of the number.
extract(s, r) ==
    Only({Only({Only({extract_validate([integer |-> int[1],
                                        fraction |-> frac[1],
                                        exponent |-> exp.exponent,
                                        raw_exponent |-> exp.raw_exponent],
                                       as_ptr(exp.rest))
                      : exp \in {IF first(frac[2]) # -1
                                    /\ to_ascii_lowercase(first(frac[2])) = exponent(r)
                                 THEN extract_exponent(frac[2], r)
                                 ELSE [exponent |-> None, raw_exponent |-> 0,
                                       rest |-> frac[2]]}})
                : frac \in {IF first(int[2]) = DEFAULT_DECIMAL_POINT
                            THEN consume_digits(slice_from(int[2], 1), r)
                            ELSE <<None, int[2]>>}})
          : int \in {consume_digits(s, r)}})

\* Calculate the digit start from the integer and fraction slices.
digits_start(data) ==
    IF is_empty(data.integer)
    THEN (IF data.fraction = None THEN 0 ELSE ltrim_zero(data.fraction)[2])
    ELSE 0

mantissa_exponent(raw_exponent, fraction_digits, truncated) ==
    IF fraction_digits > truncated
    THEN saturating_sub(raw_exponent, fraction_digits - truncated)
    ELSE saturating_add(raw_exponent, truncated - fraction_digits)

scientific_exponent(raw_exponent, integer_digits, fraction_start) ==
    IF integer_digits = 0
    THEN saturating_sub(saturating_sub(raw_exponent, fraction_start), 1)
    ELSE saturating_add(raw_exponent, integer_digits - 1)

\* Process float data for moderate/slow float parsers.
to_slow(data, truncated_digits) ==
    [digits_start     |-> digits_start(data),
     truncated_digits |-> truncated_digits,
     integer          |-> data.integer,
     fraction         |-> IF data.fraction = None THEN [ptr |-> 0, data |-> <<>>]
                          ELSE data.fraction,
     raw_exponent     |-> data.raw_exponent]

\* Get number of all integer digits.
integer_digits(slow) == Len(slow.integer.data)

\* Iterate over significant fraction digits: &self.fraction[self.digits_start..]
significant_fraction_iter(slow) == slice_from(slow.fraction, slow.digits_start).data

\* Get number of significant fraction digits.
significant_fraction_digits(slow) == Len(significant_fraction_iter(slow))

\* Get the number of digits in the mantissa.
mantissa_digits(slow) == integer_digits(slow) + significant_fraction_digits(slow)

\* ------------------------------------------------------------------------
\* Float parser: from the components to the native float.
\* ------------------------------------------------------------------------

\* The value of the digits from i to j, below a limb.
RECURSIVE small_value(_, _, _, _, _)
small_value(digits, r, i, j, acc) ==
    IF i > j THEN acc ELSE small_value(digits, r, i + 1, j, acc * r + to_digit(digits[i], r))

\* The big integer after the digits from i to j: as many digits as a limb
\* holds in one step, more of them half by half.
RECURSIVE add_digits(_, _, _, _, _)
add_digits(digits, r, i, j, acc) ==
    IF i > j THEN acc
    ELSE IF j - i < small_power_limit(r, 1)
    THEN imul_add_small(acc, r^(j - i + 1), small_value(digits, r, i, j, 0))
    ELSE Only({add_digits(digits, r, ((i + j) \div 2) + 1, j, half)
               : half \in {add_digits(digits, r, i, (i + j) \div 2, acc)}})

\* The digits as a big integer.
from_digits(digits, r, i, acc) == add_digits(digits, r, i, Len(digits), acc)

\* floor(log2(radix))
radix_log2(r) == bits_of(r) - 1

\* No number with a scientific exponent from here on is finite:
\* radix^exponent >= 2^(MAX_EXPONENT + MANTISSA_SIZE).
overflow_exponent(r) ==
    (MAX_EXPONENT + MANTISSA_SIZE + radix_log2(r) - 1) \div radix_log2(r)

\* Every number with a scientific exponent up to here rounds to zero:
\* radix^(exponent + 1) <= 2^(DENORMAL_EXPONENT - 1).
underflow_exponent(r) ==
    -((1 - DENORMAL_EXPONENT + radix_log2(r) - 1) \div radix_log2(r)) - 1

\* The float nearest to mantissa * radix^exponent.
to_exact(mantissa, r, exp) ==
    into_float(round_nearest_tie_even(imul_power(mantissa, r, Max(exp, 0)),
                                      imul_power(from_u32(1), r, Max(-exp, 0))))

\* The correctly rounded native float of the extracted components.
to_native(data, r) ==
    LET fraction == IF data.fraction = None THEN <<>> ELSE data.fraction.data
        sci      == scientific_exponent(data.raw_exponent, Len(data.integer.data),
                                        digits_start(data))
    IN  IF \A i \in 1..Len(data.integer.data \o fraction) :
               (data.integer.data \o fraction)[i] = ASCII.zero
        THEN ZERO
        ELSE IF sci >= overflow_exponent(r) THEN INFINITY
        ELSE IF sci <= underflow_exponent(r) THEN ZERO
        ELSE to_exact(from_digits(data.integer.data \o fraction, r, 1, <<>>), r,
                      mantissa_exponent(data.raw_exponent, Len(fraction), 0))

\* algorithm::atof: the float and the address after the number.
algorithm_atof(s, r, sign) ==
    Only({IF is_err(res) THEN res ELSE OkAt(to_native(res.data, r), res.ptr)
          : res \in {extract(s, r)}})

\* ------------------------------------------------------------------------
\* Float parser: special values, sign, API.
\* ------------------------------------------------------------------------

\* Whether the bytes start with the string, letters compared without case,
\* and the address after the match.
case_insensitive_starts_with_iter(s, string) ==
    <<Len(s.data) >= Len(string)
        /\ \A i \in 1..Len(string) :
               to_ascii_lowercase(s.data[i]) = to_ascii_lowercase(string[i]),
      as_ptr(s) + Len(string)>>

\* Parse infinity from string.
parse_infinity(s, r, sign) ==
    IF case_insensitive_starts_with_iter(s, DEFAULT_INFINITY_STRING)[1]
    THEN OkAt(INFINITY, case_insensitive_starts_with_iter(s, DEFAULT_INFINITY_STRING)[2])
    ELSE IF case_insensitive_starts_with_iter(s, DEFAULT_INF_STRING)[1]
    THEN OkAt(INFINITY, case_insensitive_starts_with_iter(s, DEFAULT_INF_STRING)[2])
    ELSE algorithm_atof(s, r, sign)

\* Parse NaN from string.
parse_nan(s, r, sign) ==
    IF case_insensitive_starts_with_iter(s, DEFAULT_NAN_STRING)[1]
    THEN OkAt(NAN, case_insensitive_starts_with_iter(s, DEFAULT_NAN_STRING)[2])
    ELSE algorithm_atof(s, r, sign)

\* Parse special or float values with the standard format.
parse_float_standard(s, r, sign) ==
    IF to_ascii_lowercase(s.data[1]) = 105 THEN parse_infinity(s, r, sign)
    ELSE IF to_ascii_lowercase(s.data[1]) = 110 THEN parse_nan(s, r, sign)
    ELSE algorithm_atof(s, r, sign)

\* Convert float to signed representation.
to_signed(float, sign) == IF sign = "Positive" THEN float ELSE negate(float)

\* A parser that reports an input without digits at its first byte.
atof_empty_at_start(s, r) ==
    Only({IF is_empty(signed[2]) THEN Err("Empty", as_ptr(s))
          ELSE Only({IF is_err(res) THEN res
                     ELSE OkAt(to_signed(res.value, signed[1]), res.index)
                     : res \in {parse_float_standard(signed[2], r, signed[1])}})
          : signed \in {parse_sign_float(s)}})

\* Standalone atof processor.
atof(s, r) ==
    Only({IF is_empty(signed[2]) THEN Err("Empty", as_ptr(signed[2]))
          ELSE Only({IF is_err(res) THEN res
                     ELSE OkAt(to_signed(res.value, signed[1]), res.index)
                     : res \in {parse_float_standard(signed[2], r, signed[1])}})
          : signed \in {parse_sign_float(s)}})

\* An index that is the address the parser stopped at.
atof_index_address(s, ptr) == ptr

\* The index of the pointer in the caller's bytes.
atof_index(s, ptr) == distance(as_ptr(s), ptr)

\* parse_with_options of the float API.
atof_parse(s, r) ==
    Only({IF is_ok(res) THEN OkAt(res.value, atof_index(s, res.index))
          ELSE Err(res.code, atof_index(s, res.index))
          : res \in {atof(s, r)}})

\* A partial float parser that rejects trailing bytes.
atof_partial_strict(b, r) ==
    Only({IF is_err(res) THEN res
          ELSE IF res.index = Len(b) THEN res
          ELSE Err("InvalidDigit", res.index)
          : res \in {atof_parse(as_slice(b), r)}})

\* FromLexical for the float types.
atof_partial(b, r) == atof_parse(as_slice(b), r)
atof_complete(b, r) == to_complete(atof_parse(as_slice(b), r), Len(b))

\* ------------------------------------------------------------------------
\* Parsing with a number format: digit separators.
\* ------------------------------------------------------------------------

\* The digit-separator flags of each region of a number.
DIGIT_SEPARATOR_FLAGS ==
    [INTEGER  |-> [internal    |-> "INTEGER_INTERNAL_DIGIT_SEPARATOR",
                   leading     |-> "INTEGER_LEADING_DIGIT_SEPARATOR",
                   trailing    |-> "INTEGER_TRAILING_DIGIT_SEPARATOR",
                   consecutive |-> "INTEGER_CONSECUTIVE_DIGIT_SEPARATOR"],
     FRACTION |-> [internal    |-> "FRACTION_INTERNAL_DIGIT_SEPARATOR",
                   leading     |-> "FRACTION_LEADING_DIGIT_SEPARATOR",
                   trailing    |-> "FRACTION_TRAILING_DIGIT_SEPARATOR",
                   consecutive |-> "FRACTION_CONSECUTIVE_DIGIT_SEPARATOR"],
     EXPONENT |-> [internal    |-> "EXPONENT_INTERNAL_DIGIT_SEPARATOR",
                   leading     |-> "EXPONENT_LEADING_DIGIT_SEPARATOR",
                   trailing    |-> "EXPONENT_TRAILING_DIGIT_SEPARATOR",
                   consecutive |-> "EXPONENT_CONSECUTIVE_DIGIT_SEPARATOR"]]

\* Whether the format sets the flag of the region for the position.
has_flag(fmt, region, position) == DIGIT_SEPARATOR_FLAGS[region][position] \in fmt.flags

\* The number of adjacent digit separators from byte i on.
separator_run(b, i, sep) ==
    CHOOSE k \in 0..(Len(b) + 1 - i) :
        /\ \A j \in 0..(k - 1) : b[i + j] = sep
        /\ i + k > Len(b) \/ b[i + k] # sep

\* A position that does not look at the neighbours of the run.
separator_position_internal(b, r, i, k, seen) == "internal"

\* The position of the run of k separators at byte i: leading before the
\* first digit of the region, internal between two digits, trailing otherwise.
separator_position(b, r, i, k, seen) ==
    IF ~seen THEN "leading"
    ELSE IF i + k <= Len(b) /\ is_digit(b[i + k], r) THEN "internal"
    ELSE "trailing"

\* A consumer that accepts a run of separators wherever one separator is
\* accepted.
RECURSIVE consume_any_run(_, _, _, _, _, _)
consume_any_run(b, r, fmt, region, i, seen) ==
    IF i > Len(b) THEN Len(b)
    ELSE IF is_digit(b[i], r) THEN consume_any_run(b, r, fmt, region, i + 1, TRUE)
    ELSE IF b[i] # fmt.digit_separator THEN i - 1
    ELSE Only({IF has_flag(fmt, region, separator_position(b, r, i, k, seen))
               THEN consume_any_run(b, r, fmt, region, i + k, seen)
               ELSE i - 1
               : k \in {separator_run(b, i, fmt.digit_separator)}})

\* The digit-separator consumer: the number of bytes of the region.  It
\* starts before the first byte (Start), takes digits (AfterDigit) and runs
\* of separators (AfterSeparator) that the flags of the region permit at
\* their position, a run of two or more only with the consecutive flag, and
\* ends before the first byte that is neither.
RECURSIVE consume_separator(_, _, _, _, _, _)
consume_separator(b, r, fmt, region, i, seen) ==
    IF i > Len(b) THEN Len(b)
    ELSE IF is_digit(b[i], r) THEN consume_separator(b, r, fmt, region, i + 1, TRUE)
    ELSE IF b[i] # fmt.digit_separator THEN i - 1
    ELSE Only({IF /\ has_flag(fmt, region, separator_position(b, r, i, k, seen))
                  /\ k = 1 \/ has_flag(fmt, region, "consecutive")
               THEN consume_separator(b, r, fmt, region, i + k, seen)
               ELSE i - 1
               : k \in {separator_run(b, i, fmt.digit_separator)}})

\* SkipValueIterator: the bytes without the digit separators.
skip_value(b, sep) == SelectSeq(b, LAMBDA c : c # sep)

\* Consume the digits of a region with the separators the format permits:
\* the digits of the region and the rest.
consume_digits_format(s, r, fmt, region) ==
    Only({<<[ptr |-> s.ptr,
             data |-> skip_value(SubSeq(s.data, 1, n), fmt.digit_separator)],
            slice_from(s, n)>>
          : n \in {consume_separator(s.data, r, fmt, region, 1, FALSE)}})

\* The exponent character of the format for the radix.
format_exponent(fmt, r) == IF r >= 15 THEN fmt.exponent_backup ELSE fmt.exponent_decimal

\* The sign byte of the exponent, or -1 for none: signed is the sign, the
\* bytes after it and the bytes after the exponent character.
exponent_sign(signed) == IF as_ptr(signed[2]) = as_ptr(signed[3]) THEN -1 ELSE first(signed[3])

\* Extract and parse the exponent substring with the format.
extract_exponent_format(s, r, fmt) ==
    Only({Only({IF is_empty(split[1])
                THEN [exponent |-> slice_to(signed[3], 0), raw_exponent |-> 0,
                      exponent_sign |-> exponent_sign(signed),
                      rest |-> split[2]]
                ELSE [exponent |-> split[1],
                      raw_exponent |-> parse_digits_exponent(split[1].data, r, signed[1], 1, 0),
                      exponent_sign |-> exponent_sign(signed),
                      rest |-> split[2]]
                : split \in {consume_digits_format(signed[2], r, fmt, "EXPONENT")}})
          : signed \in {parse_sign_float(slice_from(s, 1)) \o <<slice_from(s, 1)>>}})

\* A check that takes any first digit '0' as a leading zero.
has_leading_zeros_any(digits) ==
    Len(digits.data) >= 1 /\ digits.data[1] = ASCII.zero

\* Leading zeros: a first digit '0' with another digit after it.
has_leading_zeros(digits) ==
    Len(digits.data) >= 2 /\ digits.data[1] = ASCII.zero

\* A validation that requires fraction digits without a decimal point too.
validate_mantissa_format_always(data, fmt) ==
    IF "REQUIRED_INTEGER_DIGITS" \in fmt.flags /\ is_empty(data.integer)
    THEN Err("EmptyInteger", as_ptr(data.integer))
    ELSE IF /\ "REQUIRED_FRACTION_DIGITS" \in fmt.flags
            /\ data.fraction = None \/ is_empty(data.fraction)
    THEN Err("EmptyFraction", as_ptr(data.integer))
    ELSE IF is_err(validate_mantissa(data)) THEN validate_mantissa(data)
    ELSE IF "NO_FLOAT_LEADING_ZEROS" \in fmt.flags /\ has_leading_zeros(data.integer)
    THEN Err("InvalidLeadingZeros", as_ptr(data.integer))
    ELSE Ok(TRUE)

\* The mantissa with the flags of the format: the digits the flags require
\* in the integer and after a decimal point, a digit in one of the two
\* without these flags, and no leading zeros with NO_FLOAT_LEADING_ZEROS.
validate_mantissa_format(data, fmt) ==
    IF "REQUIRED_INTEGER_DIGITS" \in fmt.flags /\ is_empty(data.integer)
    THEN Err("EmptyInteger", as_ptr(data.integer))
    ELSE IF /\ "REQUIRED_FRACTION_DIGITS" \in fmt.flags
            /\ data.fraction # None /\ is_empty(data.fraction)
    THEN Err("EmptyFraction", as_ptr(data.fraction))
    ELSE IF is_err(validate_mantissa(data)) THEN validate_mantissa(data)
    ELSE IF "NO_FLOAT_LEADING_ZEROS" \in fmt.flags /\ has_leading_zeros(data.integer)
    THEN Err("InvalidLeadingZeros", as_ptr(data.integer))
    ELSE Ok(TRUE)

\* The exponent with the flags of the format: none with
\* NO_EXPONENT_NOTATION, one with REQUIRED_EXPONENT_NOTATION, and a digit
\* in one that is present with REQUIRED_EXPONENT_DIGITS.
validate_exponent_format(data, fmt) ==
    IF "NO_EXPONENT_NOTATION" \in fmt.flags /\ data.exponent # None
    THEN Err("InvalidExponent", as_ptr(data.exponent))
    ELSE IF "REQUIRED_EXPONENT_NOTATION" \in fmt.flags /\ data.exponent = None
    THEN Err("MissingExponentNotation", as_ptr(data.integer))
    ELSE IF "REQUIRED_EXPONENT_DIGITS" \in fmt.flags THEN validate_exponent(data)
    ELSE Ok(TRUE)

\* With NO_EXPONENT_WITHOUT_FRACTION an exponent needs a decimal point
\* before it.
validate_exponent_fraction(data, fmt) ==
    IF /\ "NO_EXPONENT_WITHOUT_FRACTION" \in fmt.flags
       /\ data.exponent # None /\ data.fraction = None
    THEN Err("ExponentWithoutFraction", as_ptr(data.exponent))
    ELSE Ok(TRUE)

\* The sign of an exponent that is present: no '+' with
\* NO_POSITIVE_EXPONENT_SIGN, a sign with REQUIRED_EXPONENT_SIGN.
validate_exponent_sign(data, fmt) ==
    IF /\ "NO_POSITIVE_EXPONENT_SIGN" \in fmt.flags
       /\ data.exponent # None /\ data.exponent_sign = ASCII.plus
    THEN Err("InvalidPositiveExponentSign", as_ptr(data.exponent))
    ELSE IF /\ "REQUIRED_EXPONENT_SIGN" \in fmt.flags
            /\ data.exponent # None /\ data.exponent_sign = -1
    THEN Err("MissingExponentSign", as_ptr(data.exponent))
    ELSE Ok(TRUE)

\* Validate the extracted components with the format, then trim them.
extract_validate_format(data, ptr, fmt) ==
    IF is_err(validate_mantissa_format(data, fmt)) THEN validate_mantissa_format(data, fmt)
    ELSE IF is_err(validate_exponent_format(data, fmt)) THEN validate_exponent_format(data, fmt)
    ELSE IF is_err(validate_exponent_fraction(data, fmt))
    THEN validate_exponent_fraction(data, fmt)
    ELSE IF is_err(validate_exponent_sign(data, fmt)) THEN validate_exponent_sign(data, fmt)
    ELSE [tag |-> "Ok", data |-> trim(data), ptr |-> ptr]

\* Extract float subcomponents from input bytes with the format.
extract_format(s, r, fmt) ==
    Only({Only({Only({extract_validate_format([integer |-> int[1],
                                               fraction |-> frac[1],
                                               exponent |-> exp.exponent,
                                               raw_exponent |-> exp.raw_exponent,
                                               exponent_sign |-> exp.exponent_sign],
                                              as_ptr(exp.rest), fmt)
                      : exp \in {IF first(frac[2]) # -1
                                    /\ to_ascii_lowercase(first(frac[2])) = format_exponent(fmt, r)
                                 THEN extract_exponent_format(frac[2], r, fmt)
                                 ELSE [exponent |-> None, raw_exponent |-> 0,
                                       exponent_sign |-> -1, rest |-> frac[2]]}})
                : frac \in {IF first(int[2]) = fmt.decimal_point
                            THEN consume_digits_format(slice_from(int[2], 1), r, fmt, "FRACTION")
                            ELSE <<None, int[2]>>}})
          : int \in {consume_digits_format(s, r, fmt, "INTEGER")}})

\* algorithm::atof with the format of the options.
algorithm_atof_format(s, r, fmt, sign) ==
    Only({IF is_err(res) THEN res ELSE OkAt(to_native(res.data, r), res.ptr)
          : res \in {extract_format(s, r, fmt)}})

\* ------------------------------------------------------------------------
\* Parsing with a number format: special values, sign, API.
\* ------------------------------------------------------------------------

\* Whether the bytes, read through the iterator, start with the string, and
\* the number of bytes read.  The iterator skips the digit separators when
\* skip is set; letters are compared without case unless exact is set.
RECURSIVE starts_with_iter(_, _, _, _, _, _, _)
starts_with_iter(b, string, sep, skip, exact, i, j) ==
    IF j > Len(string) THEN <<TRUE, i - 1>>
    ELSE IF i > Len(b) THEN <<FALSE, i - 1>>
    ELSE IF skip /\ b[i] = sep THEN starts_with_iter(b, string, sep, skip, exact, i + 1, j)
    ELSE IF b[i] = string[j]
            \/ (~exact /\ to_ascii_lowercase(b[i]) = to_ascii_lowercase(string[j]))
    THEN starts_with_iter(b, string, sep, skip, exact, i + 1, j + 1)
    ELSE <<FALSE, i - 1>>

\* A matcher of infinity that tries the short string first.
parse_infinity_shortest(s, r, fmt, sign, skip, exact) ==
    Only({Only({IF inf[1] THEN OkAt(INFINITY, as_ptr(s) + inf[2])
                ELSE IF infinity[1] THEN OkAt(INFINITY, as_ptr(s) + infinity[2])
                ELSE algorithm_atof_format(s, r, fmt, sign)
                : inf \in {starts_with_iter(s.data, DEFAULT_INF_STRING,
                                            fmt.digit_separator, skip, exact, 1, 1)}})
          : infinity \in {starts_with_iter(s.data, DEFAULT_INFINITY_STRING,
                                           fmt.digit_separator, skip, exact, 1, 1)}})

\* Parse infinity from string: the infinity string, then the inf string.
parse_infinity_format(s, r, fmt, sign, skip, exact) ==
    Only({Only({IF infinity[1] THEN OkAt(INFINITY, as_ptr(s) + infinity[2])
                ELSE IF inf[1] THEN OkAt(INFINITY, as_ptr(s) + inf[2])
                ELSE algorithm_atof_format(s, r, fmt, sign)
                : inf \in {starts_with_iter(s.data, DEFAULT_INF_STRING,
                                            fmt.digit_separator, skip, exact, 1, 1)}})
          : infinity \in {starts_with_iter(s.data, DEFAULT_INFINITY_STRING,
                                           fmt.digit_separator, skip, exact, 1, 1)}})

\* Parse NaN from string.
parse_nan_format(s, r, fmt, sign, skip, exact) ==
    Only({IF nan[1] THEN OkAt(NAN, as_ptr(s) + nan[2])
          ELSE algorithm_atof_format(s, r, fmt, sign)
          : nan \in {starts_with_iter(s.data, DEFAULT_NAN_STRING,
                                      fmt.digit_separator, skip, exact, 1, 1)}})

\* parse_float_standard, parse_float_c, parse_float_s and parse_float_cs:
\* the first byte, or the first byte that is no separator when skip is set,
\* routes 'i' and 'n' of either case to the matchers of the special values.
parse_float_special(s, r, fmt, sign, skip, exact) ==
    Only({IF to_ascii_lowercase(c) = 105
          THEN parse_infinity_format(s, r, fmt, sign, skip, exact)
          ELSE IF to_ascii_lowercase(c) = 110
          THEN parse_nan_format(s, r, fmt, sign, skip, exact)
          ELSE algorithm_atof_format(s, r, fmt, sign)
          : c \in {IF skip
                   THEN first([ptr |-> s.ptr, data |-> skip_value(s.data, fmt.digit_separator)])
                   ELSE first(s)}})

\* A dispatch that lets the separators of the format into the special
\* values whatever the flags.
parse_float_skip(s, r, fmt, sign) ==
    IF "NO_SPECIAL" \in fmt.flags THEN algorithm_atof_format(s, r, fmt, sign)
    ELSE parse_float_special(s, r, fmt, sign, TRUE,
                             "CASE_SENSITIVE_SPECIAL" \in fmt.flags)

\* Parse special or float values: no special values, special values that
\* are case-sensitive, digit separators in the special values.
parse_float(s, r, fmt, sign) ==
    IF "NO_SPECIAL" \in fmt.flags THEN algorithm_atof_format(s, r, fmt, sign)
    ELSE parse_float_special(s, r, fmt, sign,
                             "SPECIAL_DIGIT_SEPARATOR" \in fmt.flags,
                             "CASE_SENSITIVE_SPECIAL" \in fmt.flags)

\* A validation that takes NO_POSITIVE_MANTISSA_SIGN as no sign at all.
validate_sign_any(s, digits, sign, fmt) ==
    IF "NO_POSITIVE_MANTISSA_SIGN" \in fmt.flags /\ as_ptr(s) # as_ptr(digits)
    THEN Err("InvalidPositiveMantissaSign", as_ptr(s))
    ELSE IF "REQUIRED_MANTISSA_SIGN" \in fmt.flags /\ as_ptr(s) = as_ptr(digits)
    THEN Err("MissingMantissaSign", as_ptr(s))
    ELSE Ok(TRUE)

\* Validate sign byte is valid.
validate_sign(s, digits, sign, fmt) ==
    IF /\ "NO_POSITIVE_MANTISSA_SIGN" \in fmt.flags
       /\ as_ptr(s) # as_ptr(digits)
       /\ sign = "Positive"
    THEN Err("InvalidPositiveMantissaSign", as_ptr(s))
    ELSE IF "REQUIRED_MANTISSA_SIGN" \in fmt.flags /\ as_ptr(s) = as_ptr(digits)
    THEN Err("MissingMantissaSign", as_ptr(s))
    ELSE Ok(TRUE)

\* A processor that validates the sign before it parses the number.
atof_format_sign_first(s, r, fmt) ==
    Only({IF is_empty(signed[2]) THEN Err("Empty", as_ptr(signed[2]))
          ELSE IF is_err(validate_sign(s, signed[2], signed[1], fmt))
          THEN validate_sign(s, signed[2], signed[1], fmt)
          ELSE Only({IF is_err(res) THEN res
                     ELSE OkAt(to_signed(res.value, signed[1]), res.index)
                     : res \in {parse_float(signed[2], r, fmt, signed[1])}})
          : signed \in {parse_sign_float(s)}})

\* Standalone atof processor with the format of the options.
atof_format(s, r, fmt) ==
    Only({IF is_empty(signed[2]) THEN Err("Empty", as_ptr(signed[2]))
          ELSE Only({IF is_err(res) THEN res
                     ELSE IF is_err(validate_sign(s, signed[2], signed[1], fmt))
                     THEN validate_sign(s, signed[2], signed[1], fmt)
                     ELSE OkAt(to_signed(res.value, signed[1]), res.index)
                     : res \in {parse_float(signed[2], r, fmt, signed[1])}})
          : signed \in {parse_sign_float(s)}})

\* parse_with_options of the float API with a format.
atof_format_parse(s, r, fmt) ==
    Only({IF is_ok(res) THEN OkAt(res.value, atof_index(s, res.index))
          ELSE Err(res.code, atof_index(s, res.index))
          : res \in {atof_format(s, r, fmt)}})

\* The digit loop over the bytes of the region: the separators are skipped.
RECURSIVE parse_digits_format(_, _, _, _, _, _, _)
parse_digits_format(t, digits, r, sign, p, last, acc) ==
    IF p = last THEN OkAt(acc, p)
    ELSE IF to_digit(byte_at(digits, p), r) < 0
    THEN parse_digits_format(t, digits, r, sign, p + 1, last, acc)
    ELSE Only({IF next > max_value(t) THEN Err("Overflow", p)
               ELSE IF next < min_value(t) THEN Err("Underflow", p)
               ELSE parse_digits_format(t, digits, r, sign, p + 1, last, next)
               : next \in {IF sign = "Positive"
                           THEN acc * r + to_digit(byte_at(digits, p), r)
                           ELSE acc * r - to_digit(byte_at(digits, p), r)}})

\* The integer parser with the format: the digit separators of the
\* format, and no leading zeros with NO_INTEGER_LEADING_ZEROS.
standalone_separator(t, s, r, fmt) ==
    Only({IF is_empty(signed[2]) THEN Err("Empty", as_ptr(signed[2]))
          ELSE IF /\ "NO_INTEGER_LEADING_ZEROS" \in fmt.flags
                  /\ has_leading_zeros(consume_digits_format(signed[2], r, fmt, "INTEGER")[1])
          THEN Err("InvalidLeadingZeros", as_ptr(signed[2]))
          ELSE parse_digits_format(t, signed[2], r, signed[1], as_ptr(signed[2]),
                                   as_ptr(signed[2])
                                       + consume_separator(signed[2].data, r, fmt,
                                                           "INTEGER", 1, FALSE),
                                   0)
          : signed \in {parse_sign_integer(t, s)}})

\* atoi_format of the integer API.
atoi_format(t, s, r, fmt) ==
    Only({IF is_ok(res) THEN OkAt(res.value, atoi_index(s, res.index))
          ELSE Err(res.code, atoi_index(s, res.index))
          : res \in {standalone_separator(t, s, r, fmt)}})

\* FromLexicalOptions with a format.
parse_partial_format(a, t, b, r, fmt) ==
    IF a = "atoi" THEN atoi_format(t, as_slice(b), r, fmt)
    ELSE atof_format_parse(as_slice(b), r, fmt)

parse_format(a, t, b, r, fmt) == to_complete(parse_partial_format(a, t, b, r, fmt), Len(b))

\* ------------------------------------------------------------------------
\* Integer inputs.
\* ------------------------------------------------------------------------

DEFAULT_RADIX == 10

Radices == 2..36

\* '+', '-', '0', '1', '2', '8' and 'a'.
AtoiAlphabet == {43, 45, 48, 49, 50, 56, 97}

\* The radix-N representations of 37.
DATA ==
    [r \in Radices |->
        CASE r = 2 -> <<49, 48, 48, 49, 48, 49>>
          [] r = 3 -> <<49, 49, 48, 49>>
          [] r = 4 -> <<50, 49, 49>>
          [] r = 5 -> <<49, 50, 50>>
          [] r = 6 -> <<49, 48, 49>>
          [] r = 7 -> <<53, 50>>
          [] r = 8 -> <<52, 53>>
          [] r = 9 -> <<52, 49>>
          [] r = 10 -> <<51, 55>>
          [] r = 11 -> <<51, 52>>
          [] r = 12 -> <<51, 49>>
          [] r = 13 -> <<50, 66>>
          [] r = 14 -> <<50, 57>>
          [] r = 15 -> <<50, 55>>
          [] r = 16 -> <<50, 53>>
          [] r = 17 -> <<50, 51>>
          [] r = 18 -> <<50, 49>>
          [] r = 19 -> <<49, 73>>
          [] r = 20 -> <<49, 72>>
          [] r = 21 -> <<49, 71>>
          [] r = 22 -> <<49, 70>>
          [] r = 23 -> <<49, 69>>
          [] r = 24 -> <<49, 68>>
          [] r = 25 -> <<49, 67>>
          [] r = 26 -> <<49, 66>>
          [] r = 27 -> <<49, 65>>
          [] r = 28 -> <<49, 57>>
          [] r = 29 -> <<49, 56>>
          [] r = 30 -> <<49, 55>>
          [] r = 31 -> <<49, 54>>
          [] r = 32 -> <<49, 53>>
          [] r = 33 -> <<49, 52>>
          [] r = 34 -> <<49, 51>>
          [] r = 35 -> <<49, 50>>
          [] r = 36 -> <<49, 49>>]

\* Characters for the inputs of radix r: '0', '1', the largest digit of the
\* radix in upper and in lower case, and the smallest character that is a
\* digit of some larger radix but not of r.
RadixAlphabet(r) ==
    {ASCII.zero, ASCII.zero + 1, digit_to_char(r - 1),
     to_ascii_lowercase(digit_to_char(r - 1)),
     IF r < 36 THEN digit_to_char(r) ELSE ASCII.caret}

Signs == {<<>>, <<ASCII.plus>>, <<ASCII.minus>>}

RadixInputs(r) ==
    {sg \o ds : sg \in Signs, ds \in SeqsUpTo(RadixAlphabet(r), MaxRadixLen) \cup {DATA[r]}}

AtoiCases ==
    {<<DEFAULT_RADIX, b>> : b \in SeqsUpTo(AtoiAlphabet, MaxLen)}
        \cup UNION {{<<r, b>> : b \in RadixInputs(r)} : r \in Radices}

\* ------------------------------------------------------------------------
\* Integer parsing runs.
\* ------------------------------------------------------------------------

InitAtoi ==
    /\ api = "atoi"
    /\ ty \in IntTypes
    /\ \E c \in AtoiCases : radix = c[1] /\ bytes = c[2]
    /\ format = STANDARD
    /\ value = Null
    /\ partial = Null
    /\ complete = Null

\* parse_partial_with_options::<N>(bytes, options)
ParsePartialInteger ==
    /\ api = "atoi"
    /\ partial = Null
    /\ partial' = atoi_partial(ty, bytes, radix)
    /\ UNCHANGED <<api, ty, radix, format, bytes, value, complete>>

\* parse_with_options::<N>(bytes, options)
ParseInteger ==
    /\ api = "atoi"
    /\ complete = Null
    /\ complete' = atoi_complete(ty, bytes, radix)
    /\ UNCHANGED <<api, ty, radix, format, bytes, value, partial>>

NextAtoi == ParsePartialInteger \/ ParseInteger

SpecAtoi == InitAtoi /\ [][NextAtoi]_vars

\* ------------------------------------------------------------------------
\* Float inputs.
\* ------------------------------------------------------------------------

\* '+', '-', '.', '0', '1', '9' and 'e'.
AtofAlphabet == {43, 45, 46, 48, 49, 57, 101}

\* Inputs at the limits of the type, special values and their near misses,
\* and inputs with bytes after the number.
FloatScenarios ==
    {
     \* 2E200000000000
     <<50, 69, 50, 48, 48, 48, 48, 48, 48, 48, 48, 48, 48, 48>>,
     \* 1e-45
     <<49, 101, 45, 52, 53>>,
     \* 7e-46
     <<55, 101, 45, 52, 54>>,
     \* 8e-46
     <<56, 101, 45, 52, 54>>,
     \* 1e-46
     <<49, 101, 45, 52, 54>>,
     \* 3.4028235e38
     <<51, 46, 52, 48, 50, 56, 50, 51, 53, 101, 51, 56>>,
     \* 3.4028236e38
     <<51, 46, 52, 48, 50, 56, 50, 51, 54, 101, 51, 56>>,
     \* 3.4028234e38
     <<51, 46, 52, 48, 50, 56, 50, 51, 52, 101, 51, 56>>,
     \* 340282356779733661637539395458142568448
     <<51, 52, 48, 50, 56, 50, 51, 53, 54, 55, 55, 57, 55, 51, 51, 54, 54, 49, 54, 51, 55, 53, 51, 57, 51, 57, 53, 52, 53, 56, 49, 52, 50, 53, 54, 56, 52, 52, 56>>,
     \* 340282356779733661637539395458142568447
     <<51, 52, 48, 50, 56, 50, 51, 53, 54, 55, 55, 57, 55, 51, 51, 54, 54, 49, 54, 51, 55, 53, 51, 57, 51, 57, 53, 52, 53, 56, 49, 52, 50, 53, 54, 56, 52, 52, 55>>,
     \* 1e38
     <<49, 101, 51, 56>>,
     \* 1e39
     <<49, 101, 51, 57>>,
     \* 4e38
     <<52, 101, 51, 56>>,
     \* 1e-60
     <<49, 101, 45, 54, 48>>,
     \* 5e-324
     <<53, 101, 45, 51, 50, 52>>,
     \* 1.17549435e-38
     <<49, 46, 49, 55, 53, 52, 57, 52, 51, 53, 101, 45, 51, 56>>,
     \* 16777217
     <<49, 54, 55, 55, 55, 50, 49, 55>>,
     \* 123456789
     <<49, 50, 51, 52, 53, 54, 55, 56, 57>>,
     \* 1.2345e+8
     <<49, 46, 50, 51, 52, 53, 101, 43, 56>>,
     \* 0.001
     <<48, 46, 48, 48, 49>>,
     \* 340282350000000000000000000000000000000
     <<51, 52, 48, 50, 56, 50, 51, 53, 48, 48, 48, 48, 48, 48, 48, 48, 48, 48, 48, 48, 48, 48, 48, 48, 48, 48, 48, 48, 48, 48, 48, 48, 48, 48, 48, 48, 48, 48, 48>>,
     \* 0.000000000000000000000000000000000000000000001
     <<48, 46, 48, 48, 48, 48, 48, 48, 48, 48, 48, 48, 48, 48, 48, 48, 48, 48, 48, 48, 48, 48, 48, 48, 48, 48, 48, 48, 48, 48, 48, 48, 48, 48, 48, 48, 48, 48, 48, 48, 48, 48, 48, 48, 48, 48, 49>>,
     \* inf
     <<105, 110, 102>>,
     \* INF
     <<73, 78, 70>>,
     \* Inf
     <<73, 110, 102>>,
     \* infinity
     <<105, 110, 102, 105, 110, 105, 116, 121>>,
     \* Infinity
     <<73, 110, 102, 105, 110, 105, 116, 121>>,
     \* INFINITY
     <<73, 78, 70, 73, 78, 73, 84, 89>>,
     \* infinit
     <<105, 110, 102, 105, 110, 105, 116>>,
     \* infx
     <<105, 110, 102, 120>>,
     \* in
     <<105, 110>>,
     \* i
     <<105>>,
     \* inf1
     <<105, 110, 102, 49>>,
     \* nan
     <<110, 97, 110>>,
     \* NaN
     <<78, 97, 78>>,
     \* NAN
     <<78, 65, 78>>,
     \* nanx
     <<110, 97, 110, 120>>,
     \* na
     <<110, 97>>,
     \* n
     <<110>>,
     \* 1.0.
     <<49, 46, 48, 46>>,
     \* 0e
     <<48, 101>>,
     \* 0.0e
     <<48, 46, 48, 101>>,
     \* 1e+
     <<49, 101, 43>>,
     \* 1e-
     <<49, 101, 45>>,
     \* 1E5
     <<49, 69, 53>>,
     \* 1a
     <<49, 97>>,
     \* 1e5x
     <<49, 101, 53, 120>>,
     \* e1
     <<101, 49>>,
     \* .e1
     <<46, 101, 49>>,
     \* a byte that is not ASCII, alone and after a digit
     <<200>>,
     <<49, 200>>
    }

AtofCases ==
    SeqsUpTo(AtofAlphabet, MaxFloatLen)
        \cup {sg \o b : sg \in Signs, b \in FloatScenarios}

\* ------------------------------------------------------------------------
\* Float parsing runs.
\* ------------------------------------------------------------------------

InitAtof ==
    /\ api = "atof"
    /\ ty = "f32"
    /\ radix = DEFAULT_RADIX
    /\ format = STANDARD
    /\ bytes \in AtofCases
    /\ value = Null
    /\ partial = Null
    /\ complete = Null

\* parse_partial::<f32>(bytes)
ParsePartialFloat ==
    /\ api = "atof"
    /\ partial = Null
    /\ partial' = atof_partial(bytes, radix)
    /\ UNCHANGED <<api, ty, radix, format, bytes, value, complete>>

\* parse::<f32>(bytes)
ParseFloat ==
    /\ api = "atof"
    /\ complete = Null
    /\ complete' = atof_complete(bytes, radix)
    /\ UNCHANGED <<api, ty, radix, format, bytes, value, partial>>

NextAtof == ParsePartialFloat \/ ParseFloat

SpecAtof == InitAtof /\ [][NextAtof]_vars

\* ------------------------------------------------------------------------
\* Integer writer.
\* ------------------------------------------------------------------------

\* Two consecutive digits for 2 * (value % 100).
DIGIT_TO_BASE10_SQUARED ==
    <<
      48, 48, 48, 49, 48, 50, 48, 51, 48, 52, 48, 53, 48, 54, 48, 55, 48, 56, 48, 57,
      49, 48, 49, 49, 49, 50, 49, 51, 49, 52, 49, 53, 49, 54, 49, 55, 49, 56, 49, 57,
      50, 48, 50, 49, 50, 50, 50, 51, 50, 52, 50, 53, 50, 54, 50, 55, 50, 56, 50, 57,
      51, 48, 51, 49, 51, 50, 51, 51, 51, 52, 51, 53, 51, 54, 51, 55, 51, 56, 51, 57,
      52, 48, 52, 49, 52, 50, 52, 51, 52, 52, 52, 53, 52, 54, 52, 55, 52, 56, 52, 57,
      53, 48, 53, 49, 53, 50, 53, 51, 53, 52, 53, 53, 53, 54, 53, 55, 53, 56, 53, 57,
      54, 48, 54, 49, 54, 50, 54, 51, 54, 52, 54, 53, 54, 54, 54, 55, 54, 56, 54, 57,
      55, 48, 55, 49, 55, 50, 55, 51, 55, 52, 55, 53, 55, 54, 55, 55, 55, 56, 55, 57,
      56, 48, 56, 49, 56, 50, 56, 51, 56, 52, 56, 53, 56, 54, 56, 55, 56, 56, 56, 57,
      57, 48, 57, 49, 57, 50, 57, 51, 57, 52, 57, 53, 57, 54, 57, 55, 57, 56, 57, 57
    >>

BITS(t) == IF t \in {"u8", "i8"} THEN 8 ELSE 16

\* The value as the unsigned integer of the same width.
as_unsigned(t, v) == v % 2^BITS(t)

\* Two's-complement negation of the unsigned form.
wrapping_neg(t, u) == (2^BITS(t) - u) % 2^BITS(t)

\* Decimal digits, two at a time from the right, in front of buffer.
RECURSIVE write_decimal(_, _)
write_decimal(u, buffer) ==
    IF u >= 100
    THEN write_decimal(u \div 100,
                       <<DIGIT_TO_BASE10_SQUARED[2 * (u % 100) + 1],
                         DIGIT_TO_BASE10_SQUARED[2 * (u % 100) + 2]>> \o buffer)
    ELSE IF u < 10 THEN <<digit_to_char(u)>> \o buffer
    ELSE <<DIGIT_TO_BASE10_SQUARED[2 * u + 1], DIGIT_TO_BASE10_SQUARED[2 * u + 2]>> \o buffer

\* Digits of any radix, one at a time from the right, in front of buffer.
RECURSIVE write_generic(_, _, _)
write_generic(u, r, buffer) ==
    IF u >= r THEN write_generic(u \div r, r, <<digit_to_char(u % r)>> \o buffer)
    ELSE <<digit_to_char(u)>> \o buffer

write_unsigned(u, r) ==
    IF r = DEFAULT_RADIX THEN write_decimal(u, <<>>) ELSE write_generic(u, r, <<>>)

\* A writer that emits a sign in front of every value.
itoa_always_signed(t, v, r) ==
    IF IS_SIGNED(t) /\ v < 0
    THEN <<ASCII.minus>> \o write_unsigned(wrapping_neg(t, as_unsigned(t, v)), r)
    ELSE <<ASCII.plus>> \o write_unsigned(as_unsigned(t, v), r)

\* The integer writer: the sign of a negative value is emitted last, in
\* front of the digits of its absolute value.
itoa(t, v, r) ==
    IF IS_SIGNED(t) /\ v < 0
    THEN <<ASCII.minus>> \o write_unsigned(wrapping_neg(t, as_unsigned(t, v)), r)
    ELSE write_unsigned(as_unsigned(t, v), r)

\* ToLexical for the integer types: the written part of the buffer.
to_lexical_with_options(t, v, r) == itoa(t, v, r)

\* Number::FORMATTED_SIZE_DECIMAL: the decimal digits of the value of the
\* type with the most digits, and its sign.
FORMATTED_SIZE_DECIMAL(t) ==
    CASE t = "u8" -> 3 [] t = "i8" -> 4 [] t = "u16" -> 5 [] t = "i16" -> 6

\* Number::FORMATTED_SIZE: its digits in the smallest radix, and its sign.
FORMATTED_SIZE(t) == IF IS_SIGNED(t) THEN BITS(t) + 1 ELSE BITS(t)

\* ------------------------------------------------------------------------
\* Integer round-trip runs.
\* ------------------------------------------------------------------------

\* Every value within MaxDistance of an end of the range of the type, of
\* zero, or of a power of ten.
MaxDistance == 130

Landmarks(t) == {min_value(t), max_value(t), 0, 10, 100, 1000, 10000, -10, -100, -1000, -10000}

Values(t) ==
    {v \in min_value(t)..max_value(t) :
        \E m \in Landmarks(t) : v - m <= MaxDistance /\ m - v <= MaxDistance}

InitItoa ==
    /\ api = "itoa"
    /\ ty \in IntTypes
    /\ radix \in Radices
    /\ format = STANDARD
    /\ value \in Values(ty)
    /\ bytes = <<>>
    /\ partial = Null
    /\ complete = Null

\* to_lexical_with_options(value, buffer, options)
WriteInteger ==
    /\ api = "itoa"
    /\ bytes = <<>>
    /\ bytes' = to_lexical_with_options(ty, value, radix)
    /\ UNCHANGED <<api, ty, radix, format, value, partial, complete>>

\* from_lexical_with_options(digits, options) on the written bytes.
ParseWritten ==
    /\ api = "itoa"
    /\ bytes # <<>>
    /\ complete = Null
    /\ complete' = atoi_complete(ty, bytes, radix)
    /\ UNCHANGED <<api, ty, radix, format, bytes, value, partial>>

NextItoa == WriteInteger \/ ParseWritten

SpecItoa == InitItoa /\ [][NextItoa]_vars

\* ------------------------------------------------------------------------
\* Float writer: the shortest decimal digits that round-trip.
\* ------------------------------------------------------------------------

\* Import ExtendedFloat from native float: the float is mant * 2^exp, a
\* denormal float without the hidden bit and with the denormal exponent.
from_float(f) ==
    IF f.bits < HIDDEN_BIT_MASK THEN ExtendedFloat(f.bits, DENORMAL_EXPONENT)
    ELSE ExtendedFloat(HIDDEN_BIT_MASK + (f.bits % HIDDEN_BIT_MASK),
                       (f.bits \div HIDDEN_BIT_MASK) - EXPONENT_BIAS)

\* The sign of a * 2^ea - d * 10^q.
compare_scaled(a, ea, d, q) ==
    compare(ishl(imul_power(from_u32(a), DEFAULT_RADIX, Max(-q, 0)), Max(ea, 0)),
            ishl(imul_power(from_u32(d), DEFAULT_RADIX, Max(q, 0)), Max(-ea, 0)))

\* floor(a * 2^ea / 10^q), for a quotient below 2^30, and whether a
\* remainder is left.
div_scaled(a, ea, q) ==
    Only({div_small_quotient(r, t, 29, 0)
          : r \in {ishl(imul_power(from_u32(a), DEFAULT_RADIX, Max(-q, 0)), Max(ea, 0))},
            t \in {ishl(imul_power(from_u32(1), DEFAULT_RADIX, Max(q, 0)),
                        Max(-ea, 0) + 29)}})

\* The power of ten of the first decimal digit of the float.
decimal_exponent(fp) ==
    Only({IF compare_scaled(fp.mant, fp.exp, 1, k + 1) >= 0 THEN k + 1
          ELSE IF compare_scaled(fp.mant, fp.exp, 1, k) < 0 THEN k - 1
          ELSE k
          : k \in {((bits_of(fp.mant) - 1 + fp.exp) * 1233) \div 4096}})

\* d * 10^q parses to the float: it is within half the distance to the
\* predecessor (below) or to the successor (above), halfway included when
\* the mantissa is even. The predecessor of a power of two above the
\* denormals is half as far from it as its successor.
rounds_up_to(fp, d, q) ==
    Only({IF fp.mant % 2 = 0 THEN c <= 0 ELSE c < 0
          : c \in {compare_scaled(4 * fp.mant - (IF fp.mant = HIDDEN_BIT_MASK
                                                     /\ fp.exp > DENORMAL_EXPONENT
                                                  THEN 1 ELSE 2),
                                  fp.exp - 2, d, q)}})

rounds_down_to(fp, d, q) ==
    Only({IF fp.mant % 2 = 0 THEN c >= 0 ELSE c > 0
          : c \in {compare_scaled(4 * fp.mant + 2, fp.exp - 2, d, q)}})

\* Whether down * 10^q is at least as near to the float as (down + 1) * 10^q.
nearer_down(fp, down, q) ==
    Only({c < 0 \/ (c = 0 /\ down % 2 = 0)
          : c \in {compare_scaled(8 * fp.mant, fp.exp - 2, 2 * down + 1, q)}})

\* The decimal d * 10^q nearest to the float among those that parse to it,
\* given floor(float / 10^q) and whether the division left a remainder.
nearest_digits(fp, q, down, inexact) ==
    IF ~inexact THEN [digits |-> down, exponent |-> q]
    ELSE Only({IF lower /\ upper
               THEN [digits |-> IF nearer_down(fp, down, q) THEN down ELSE down + 1,
                     exponent |-> q]
               ELSE IF lower THEN [digits |-> down, exponent |-> q]
               ELSE IF upper THEN [digits |-> down + 1, exponent |-> q]
               ELSE None
               : lower \in {rounds_up_to(fp, down, q)},
                 upper \in {rounds_down_to(fp, down + 1, q)}})

\* The round-tripping decimal of n digits, None without one.
round_trip_digits(fp, k, n) ==
    Only({nearest_digits(fp, k - n + 1, qr[1], qr[2])
          : qr \in {div_scaled(4 * fp.mant, fp.exp - 2, k - n + 1)}})

\* The round-tripping decimal with the fewest digits, from n digits on.
RECURSIVE shortest_digits(_, _, _)
shortest_digits(fp, k, n) ==
    IF round_trip_digits(fp, k, n) # None THEN round_trip_digits(fp, k, n)
    ELSE shortest_digits(fp, k, n + 1)

\* Without the trailing zeros of the digits.
RECURSIVE trim_decimal(_)
trim_decimal(dec) ==
    IF dec.digits % DEFAULT_RADIX = 0
    THEN trim_decimal([digits |-> dec.digits \div DEFAULT_RADIX, exponent |-> dec.exponent + 1])
    ELSE dec

\* The digit characters, and the power of ten of the first of them.
float_decimal(f) ==
    IF f.bits = 0 THEN [digits |-> <<ASCII.zero>>, exponent |-> 0]
    ELSE Only({[digits |-> write_decimal(dec.digits, <<>>),
                exponent |-> dec.exponent + Len(write_decimal(dec.digits, <<>>)) - 1]
               : dec \in {Only({trim_decimal(shortest_digits(from_float(f), k, 1))
                                : k \in {decimal_exponent(from_float(f))}})}})

\* ------------------------------------------------------------------------
\* Float writer: notations.
\* ------------------------------------------------------------------------

zeros(n) == [i \in 1..n |-> ASCII.zero]

\* ".0" when a fractional component is always written.
point_zero(fractional) == IF fractional THEN <<DEFAULT_DECIMAL_POINT, ASCII.zero>> ELSE <<>>

write_sign(f) == IF f.neg THEN <<ASCII.minus>> ELSE <<>>

\* The digits with the decimal point placed by the exponent, no exponent
\* written.
positional(dec, fractional) ==
    IF dec.exponent >= Len(dec.digits) - 1
    THEN dec.digits \o zeros(dec.exponent - Len(dec.digits) + 1) \o point_zero(fractional)
    ELSE IF dec.exponent >= 0
    THEN SubSeq(dec.digits, 1, dec.exponent + 1) \o <<DEFAULT_DECIMAL_POINT>>
             \o SubSeq(dec.digits, dec.exponent + 2, Len(dec.digits))
    ELSE <<ASCII.zero, DEFAULT_DECIMAL_POINT>> \o zeros(-dec.exponent - 1) \o dec.digits

\* The decimal exponent after the exponent character.
write_exponent(e) ==
    IF e < 0 THEN <<DEFAULT_EXPONENT_CHAR, ASCII.minus>> \o write_decimal(-e, <<>>)
    ELSE <<DEFAULT_EXPONENT_CHAR>> \o write_decimal(e, <<>>)

\* One digit, the other digits as the fraction, and the exponent.
scientific(dec, fractional) ==
    (IF Len(dec.digits) = 1 THEN dec.digits \o point_zero(fractional)
     ELSE <<dec.digits[1], DEFAULT_DECIMAL_POINT>> \o SubSeq(dec.digits, 2, Len(dec.digits)))
        \o write_exponent(dec.exponent)

\* The float writer: the sign and the shortest digits, in positional or in
\* scientific notation, always with a fractional component.
ftoa(f, notation) ==
    Only({write_sign(f) \o (IF notation = "scientific" THEN scientific(dec, TRUE)
                           ELSE positional(dec, TRUE))
          : dec \in {float_decimal(f)}})

\* format!("{}", f), format!("{:?}", f) and format!("{:e}", f).
format_display(f) == Only({write_sign(f) \o positional(dec, FALSE) : dec \in {float_decimal(f)}})

format_debug(f, notation) ==
    Only({write_sign(f) \o (IF notation = "scientific" THEN scientific(dec, FALSE)
                           ELSE positional(dec, TRUE))
          : dec \in {float_decimal(f)}})

format_scientific(f) == Only({write_sign(f) \o scientific(dec, FALSE) : dec \in {float_decimal(f)}})

\* ------------------------------------------------------------------------
\* Float round-trip runs.
\* ------------------------------------------------------------------------

\* The mantissas at MantissaSteps even steps over their range, with the
\* neighbours of its ends, and the biased exponents at ExponentSteps even
\* steps over theirs, from the subnormals to the largest finite exponent.
MantissaSteps == 5
ExponentSteps == 20

Mantissas ==
    {(j * MANTISSA_MASK) \div MantissaSteps : j \in 0..MantissaSteps}
        \cup {1, MANTISSA_MASK - 1}

BiasedExponents ==
    {(j * (MAX_EXPONENT + EXPONENT_BIAS - 1)) \div ExponentSteps : j \in 0..ExponentSteps}

\* Finite floats of both signs.
FiniteFloats ==
    {Float(neg, (e * HIDDEN_BIT_MASK) + m)
        : neg \in BOOLEAN, e \in BiasedExponents, m \in Mantissas}

InitFtoa ==
    /\ api = "ftoa"
    /\ ty = "f32"
    /\ radix = DEFAULT_RADIX
    /\ format = STANDARD
    /\ value \in FiniteFloats
    /\ bytes = <<>>
    /\ partial = Null
    /\ complete = Null

\* to_lexical(value, buffer)
WriteFloat ==
    /\ api = "ftoa"
    /\ bytes = <<>>
    /\ \E notation \in {"positional", "scientific"} : bytes' = ftoa(value, notation)
    /\ UNCHANGED <<api, ty, radix, format, value, partial, complete>>

\* format!("{}", value)
FormatDisplay ==
    /\ api = "ftoa"
    /\ bytes = <<>>
    /\ bytes' = format_display(value)
    /\ UNCHANGED <<api, ty, radix, format, value, partial, complete>>

\* format!("{:?}", value)
FormatDebug ==
    /\ api = "ftoa"
    /\ bytes = <<>>
    /\ \E notation \in {"positional", "scientific"} : bytes' = format_debug(value, notation)
    /\ UNCHANGED <<api, ty, radix, format, value, partial, complete>>

\* format!("{:e}", value)
FormatScientific ==
    /\ api = "ftoa"
    /\ bytes = <<>>
    /\ bytes' = format_scientific(value)
    /\ UNCHANGED <<api, ty, radix, format, value, partial, complete>>

\* f32::from_lexical(input.as_bytes())
ParseRendered ==
    /\ api = "ftoa"
    /\ bytes # <<>>
    /\ complete = Null
    /\ complete' = atof_complete(bytes, radix)
    /\ UNCHANGED <<api, ty, radix, format, bytes, value, partial>>

NextFtoa == WriteFloat \/ FormatDisplay \/ FormatDebug \/ FormatScientific \/ ParseRendered

SpecFtoa == InitFtoa /\ [][NextFtoa]_vars

\* ------------------------------------------------------------------------
\* Parsing runs with a number format.
\* ------------------------------------------------------------------------

\* The largest number of digit-separator flags of a format.
MaxFlags == 2

\* The digit separator of the formats: '_'.
Separator == from_flags(95)

Regions == {"INTEGER", "FRACTION", "EXPONENT"}

SeparatorFlags ==
    {DIGIT_SEPARATOR_FLAGS[region][position]
         : region \in Regions,
           position \in {"internal", "leading", "trailing", "consecutive"}}

\* NumberFormat::from_separator(b'_') | flags
SeparatorFormats ==
    {from_separator(Separator, flags)
         : flags \in {f \in SUBSET SeparatorFlags : Cardinality(f) <= MaxFlags}}

SpecialFormats ==
    {from_separator(Separator, flags)
         : flags \in SUBSET {"NO_SPECIAL", "CASE_SENSITIVE_SPECIAL", "SPECIAL_DIGIT_SEPARATOR"}}

\* The bytes with a run of k separators after the first g bytes.
with_separators(b, g, k) ==
    SubSeq(b, 1, g) \o [j \in 1..k |-> Separator] \o SubSeq(b, g + 1, Len(b))

\* A number without separators, with one separator and with a run of two.
Separated(b) == {b} \cup {with_separators(b, g, k) : g \in 0..Len(b), k \in {1, 2}}

\* "31"
IntegerNumbers == {<<51, 49>>}

\* "31.0", "31.01e12"
FloatNumbers == {<<51, 49, 46, 48>>, <<51, 49, 46, 48, 49, 101, 49, 50>>}

\* "NaN", "nan", "inf", "INF", "infinity", "Infinity", "infinit", "in".
SpecialStrings ==
    {DEFAULT_NAN_STRING, <<110, 97, 110>>,
     DEFAULT_INF_STRING, <<73, 78, 70>>,
     DEFAULT_INFINITY_STRING, <<73, 110, 102, 105, 110, 105, 116, 121>>,
     <<105, 110, 102, 105, 110, 105, 116>>, <<105, 110>>}

InitSeparator ==
    /\ \/ api = "atoi" /\ ty \in IntTypes /\ bytes \in UNION {Separated(b) : b \in IntegerNumbers}
       \/ api = "atof" /\ ty = "f32"
            /\ bytes \in {sg \o b : sg \in {<<>>, <<ASCII.minus>>},
                                    b \in UNION {Separated(b) : b \in FloatNumbers}}
    /\ radix = DEFAULT_RADIX
    /\ format \in SeparatorFormats
    /\ value = Null
    /\ partial = Null
    /\ complete = Null

InitSpecial ==
    /\ api = "atof"
    /\ ty = "f32"
    /\ radix = DEFAULT_RADIX
    /\ format \in SpecialFormats \cup {STANDARD}
    /\ bytes \in {sg \o b : sg \in Signs, b \in UNION {Separated(b) : b \in SpecialStrings}}
    /\ value = Null
    /\ partial = Null
    /\ complete = Null

InitFormat == InitSeparator \/ InitSpecial

\* parse_partial_with_options::<T>(bytes, options) with the format
ParsePartialIntegerFormat ==
    /\ api = "atoi"
    /\ partial = Null
    /\ partial' = parse_partial_format(api, ty, bytes, radix, format)
    /\ UNCHANGED <<api, ty, radix, format, bytes, value, complete>>

\* parse_with_options::<T>(bytes, options) with the format
ParseIntegerFormat ==
    /\ api = "atoi"
    /\ complete = Null
    /\ complete' = parse_format(api, ty, bytes, radix, format)
    /\ UNCHANGED <<api, ty, radix, format, bytes, value, partial>>

\* parse_partial_with_options::<f32>(bytes, options) with the format
ParsePartialFloatFormat ==
    /\ api = "atof"
    /\ partial = Null
    /\ partial' = parse_partial_format(api, ty, bytes, radix, format)
    /\ UNCHANGED <<api, ty, radix, format, bytes, value, complete>>

\* parse_with_options::<f32>(bytes, options) with the format
ParseFloatFormat ==
    /\ api = "atof"
    /\ complete = Null
    /\ complete' = parse_format(api, ty, bytes, radix, format)
    /\ UNCHANGED <<api, ty, radix, format, bytes, value, partial>>

NextFormat ==
    \/ ParsePartialIntegerFormat
    \/ ParseIntegerFormat
    \/ ParsePartialFloatFormat
    \/ ParseFloatFormat

SpecFormat == InitFormat /\ [][NextFormat]_vars

\* ------------------------------------------------------------------------
\* Parsing runs with the flags of the grammar.
\* ------------------------------------------------------------------------

MaxGrammarLen == 3

\* '+', '-', '.', '0', '1' and 'e'.
GrammarAlphabet == {43, 45, 46, 48, 49, 101}

\* The flag with the punctuation of the standard format.
from_flag(flags) ==
    NumberFormat(flags, STANDARD.digit_separator, STANDARD.decimal_point,
                 STANDARD.exponent_decimal, STANDARD.exponent_backup)

REQUIRED_DIGITS ==
    {"REQUIRED_INTEGER_DIGITS", "REQUIRED_FRACTION_DIGITS", "REQUIRED_EXPONENT_DIGITS"}

\* The format of the numbers of JSON.
JSON ==
    from_flag(REQUIRED_DIGITS \cup {"NO_POSITIVE_MANTISSA_SIGN", "NO_SPECIAL",
                                    "NO_INTEGER_LEADING_ZEROS", "NO_FLOAT_LEADING_ZEROS"})

\* The formats of the tests of the flags, the standard format and JSON.
GrammarFormats ==
    {from_flag({flag}) : flag \in {"REQUIRED_INTEGER_DIGITS", "REQUIRED_FRACTION_DIGITS",
                                   "REQUIRED_EXPONENT_DIGITS",
                                   "NO_POSITIVE_MANTISSA_SIGN", "REQUIRED_MANTISSA_SIGN",
                                   "NO_EXPONENT_NOTATION",
                                   "NO_POSITIVE_EXPONENT_SIGN", "REQUIRED_EXPONENT_SIGN",
                                   "NO_EXPONENT_WITHOUT_FRACTION",
                                   "NO_INTEGER_LEADING_ZEROS", "NO_FLOAT_LEADING_ZEROS"}}
        \cup {from_flag(REQUIRED_DIGITS),
              from_flag({"NO_EXPONENT_WITHOUT_FRACTION", "REQUIRED_FRACTION_DIGITS"}),
              STANDARD, JSON}

\* The inputs of the tests of the flags that are longer than MaxGrammarLen.
GrammarScenarios ==
    {
     \* +3.0, -3.0
     <<43, 51, 46, 48>>, <<45, 51, 46, 48>>,
     \* 010.0, 01.0, 10.0
     <<48, 49, 48, 46, 48>>, <<48, 49, 46, 48>>, <<49, 48, 46, 48>>,
     \* 012.0, -012.0, -12.0
     <<48, 49, 50, 46, 48>>, <<45, 48, 49, 50, 46, 48>>, <<45, 49, 50, 46, 48>>,
     \* -012, -010
     <<45, 48, 49, 50>>, <<45, 48, 49, 48>>,
     \* 3.0e7, 3.0e+7, 3.0e-7
     <<51, 46, 48, 101, 55>>, <<51, 46, 48, 101, 43, 55>>, <<51, 46, 48, 101, 45, 55>>,
     \* +3.0e, +3.0e-, +3e-
     <<43, 51, 46, 48, 101>>, <<43, 51, 46, 48, 101, 45>>, <<43, 51, 101, 45>>,
     \* 9.e+, 2.e-3, 1E+2
     <<57, 46, 101, 43>>, <<50, 46, 101, 45, 51>>, <<49, 69, 43, 50>>,
     \* +.e1, -.0e1
     <<43, 46, 101, 49>>, <<45, 46, 48, 101, 49>>,
     \* 1e+1, 1e-1, +1e1, -1e1
     <<49, 101, 43, 49>>, <<49, 101, 45, 49>>, <<43, 49, 101, 49>>, <<45, 49, 101, 49>>,
     \* +1e+1, -1e+1, +1e-1, -1e-1
     <<43, 49, 101, 43, 49>>, <<45, 49, 101, 43, 49>>,
     <<43, 49, 101, 45, 49>>, <<45, 49, 101, 45, 49>>
    }

GrammarCases == SeqsUpTo(GrammarAlphabet, MaxGrammarLen) \cup GrammarScenarios

InitGrammar ==
    /\ \/ api = "atoi" /\ ty = "i16"
       \/ api = "atof" /\ ty = "f32"
    /\ radix = DEFAULT_RADIX
    /\ format \in GrammarFormats
    /\ bytes \in GrammarCases
    /\ value = Null
    /\ partial = Null
    /\ complete = Null

SpecGrammar == InitGrammar /\ [][NextFormat]_vars

\* ------------------------------------------------------------------------
\* Parsing runs of both families.
\* ------------------------------------------------------------------------

\* lexical::parse_partial_with_options and lexical::parse_with_options for
\* the number family a and the type t.
parse_partial(a, t, b, r) == IF a = "atoi" THEN atoi_partial(t, b, r) ELSE atof_partial(b, r)
parse(a, t, b, r) == IF a = "atoi" THEN atoi_complete(t, b, r) ELSE atof_complete(b, r)

Init == InitAtoi \/ InitAtof

Next == ParsePartialInteger \/ ParseInteger \/ ParsePartialFloat \/ ParseFloat

Spec == Init /\ [][Next]_vars

\* ------------------------------------------------------------------------
\* Options: validation on construction.
\* ------------------------------------------------------------------------

\* Check if byte array starts with case-insensitive N.
starts_with_n(b) == Len(b) > 0 /\ b[1] \in {78, 110}

\* Check if byte array starts with case-insensitive I.
starts_with_i(b) == Len(b) > 0 /\ b[1] \in {73, 105}

\* Get radix if radix is valid: from 2 to 36 with the radix feature, 10
\* without it.
to_radix(r, features) ==
    IF "radix" \in features
    THEN (IF r >= 2 /\ r <= 36 THEN Some(r) ELSE None)
    ELSE (IF r = 10 THEN Some(r) ELSE None)

\* Get exponent character if character is valid.
to_exponent_char(exponent_char, r) ==
    IF to_digit(exponent_char, r) < 0 THEN Some(exponent_char) ELSE None

\* Get number format if format is valid.
to_format_integer(fmt, r) ==
    IF to_digit(fmt.digit_separator, r) < 0 THEN Some(fmt) ELSE None

\* Get number format if format is valid.
to_format_float(fmt, r, exponent_char) ==
    IF to_digit(fmt.digit_separator, r) < 0 /\ fmt.digit_separator # exponent_char
    THEN Some(fmt)
    ELSE None

\* Get rounding if rounding is valid.
to_rounding(rounding, features) ==
    IF "rounding" \in features THEN Some(rounding)
    ELSE IF rounding = "NearestTieEven" THEN Some(rounding)
    ELSE None

\* Get nan string if string is valid.
to_nan_string(nan_string) == IF starts_with_n(nan_string) THEN Some(nan_string) ELSE None

\* Get inf string if string is valid.
to_inf_string(inf_string) == IF starts_with_i(inf_string) THEN Some(inf_string) ELSE None

\* Get infinity string if string is valid.
to_infinity_string(infinity_string, inf_string) ==
    IF Len(infinity_string) >= Len(inf_string) /\ starts_with_i(infinity_string)
    THEN Some(infinity_string)
    ELSE None

\* ParseIntegerOptions::create
ParseIntegerOptions_create(r, fmt, features) ==
    IF to_radix(r, features) = None THEN None
    ELSE IF to_format_integer(fmt, r) = None THEN None
    ELSE Some([radix |-> r, format |-> fmt])

\* A construction that takes the radix as it is given.
ParseFloatOptions_create_any_radix(lossy, exponent_char, r, fmt, rounding, nan_string, inf_string, infinity_string, features) ==
    IF to_exponent_char(exponent_char, r) = None THEN None
    ELSE IF to_format_float(fmt, r, exponent_char) = None THEN None
    ELSE IF to_rounding(rounding, features) = None THEN None
    ELSE IF to_nan_string(nan_string) = None THEN None
    ELSE IF to_inf_string(inf_string) = None THEN None
    ELSE IF to_infinity_string(infinity_string, inf_string) = None THEN None
    ELSE Some([lossy |-> lossy, exponent_char |-> exponent_char, radix |-> r,
               format |-> fmt, rounding |-> rounding, nan_string |-> nan_string,
               inf_string |-> inf_string, infinity_string |-> infinity_string])

\* ParseFloatOptions::create
ParseFloatOptions_create(lossy, exponent_char, r, fmt, rounding, nan_string, inf_string, infinity_string, features) ==
    IF to_radix(r, features) = None THEN None
    ELSE IF to_exponent_char(exponent_char, r) = None THEN None
    ELSE IF to_format_float(fmt, r, exponent_char) = None THEN None
    ELSE IF to_rounding(rounding, features) = None THEN None
    ELSE IF to_nan_string(nan_string) = None THEN None
    ELSE IF to_inf_string(inf_string) = None THEN None
    ELSE IF to_infinity_string(infinity_string, inf_string) = None THEN None
    ELSE Some([lossy |-> lossy, exponent_char |-> exponent_char, radix |-> r,
               format |-> fmt, rounding |-> rounding, nan_string |-> nan_string,
               inf_string |-> inf_string, infinity_string |-> infinity_string])

\* The default exponent character of the radix.
exponent_notation_char(r) ==
    IF r >= 15 THEN DEFAULT_EXPONENT_BACKUP_CHAR ELSE DEFAULT_EXPONENT_CHAR

\* The panic of expect() on None.
Panic(message) == [tag |-> "Panic", message |-> message]

\* An entry point that parses in radix 10 when it cannot build its options.
from_lexical_radix_fallback(a, t, b, r) ==
    IF (IF a = "atoi"
        THEN ParseIntegerOptions_create(r, STANDARD, {"radix"})
        ELSE ParseFloatOptions_create(FALSE, exponent_notation_char(r), r, STANDARD,
                                      "NearestTieEven", DEFAULT_NAN_STRING,
                                      DEFAULT_INF_STRING, DEFAULT_INFINITY_STRING,
                                      {"radix"})) = None
    THEN parse(a, t, b, DEFAULT_RADIX)
    ELSE parse(a, t, b, r)

\* from_lexical_radix: the options are built from the radix, expect() panics
\* when there are none, and the bytes are parsed with them.
from_lexical_radix(a, t, b, r) ==
    IF (IF a = "atoi"
        THEN ParseIntegerOptions_create(r, STANDARD, {"radix"})
        ELSE ParseFloatOptions_create(FALSE, exponent_notation_char(r), r, STANDARD,
                                      "NearestTieEven", DEFAULT_NAN_STRING,
                                      DEFAULT_INF_STRING, DEFAULT_INFINITY_STRING,
                                      {"radix"})) = None
    THEN Panic("Numerical base must be from 2-36.")
    ELSE parse(a, t, b, r)

\* ------------------------------------------------------------------------
\* Construction runs.
\* ------------------------------------------------------------------------

\* '+', '.', '0', '^', '_', 'e' and a byte that is not ASCII.
Punctuation == {ASCII.plus, ASCII.dot, ASCII.zero, ASCII.caret, 95, 101, 200}

\* The fields of a number format builder.
Builders ==
    [flags : {{}}, digit_separator : Punctuation, decimal_point : Punctuation,
     exponent_decimal : Punctuation, exponent_backup : Punctuation,
     power_of_two : BOOLEAN]

\* The radices of the tests of to_radix, and 0 and 255.
CandidateRadices == {0, 1, 2, 10, 16, 36, 37, 255}

\* The digit separators of the candidate formats: none, '_', '+', '-', '0',
\* 'A', 'e', '^'.
CandidateSeparators == {0, 95, ASCII.plus, ASCII.minus, ASCII.zero, ASCII.A, 101, ASCII.caret}

\* "NaN", "nan", "inf"
CandidateNanStrings == {DEFAULT_NAN_STRING, <<110, 97, 110>>, DEFAULT_INF_STRING}

\* "inf", "NaN"
CandidateInfStrings == {DEFAULT_INF_STRING, DEFAULT_NAN_STRING}

\* "infinity", "in", "NaN"
CandidateInfinityStrings == {DEFAULT_INFINITY_STRING, <<105, 110>>, DEFAULT_NAN_STRING}

\* The fields of float options other than the radix and the format.
FloatFields ==
    [lossy : {FALSE}, exponent_char : {DEFAULT_EXPONENT_CHAR, ASCII.caret, 50},
     rounding : {"NearestTieEven", "TowardZero"},
     nan_string : CandidateNanStrings, inf_string : CandidateInfStrings,
     infinity_string : CandidateInfinityStrings,
     features : SUBSET {"radix", "rounding"}]

InitOptions ==
    /\ \/ /\ api = "NumberFormat"
          /\ value \in Builders
          /\ radix = DEFAULT_RADIX
          /\ format = STANDARD
          /\ ty = "f32"
          /\ bytes = <<>>
       \/ /\ api = "ParseIntegerOptions"
          /\ value \in [features : SUBSET {"radix"}]
          /\ radix \in CandidateRadices
          /\ format \in {from_separator(ch, {}) : ch \in CandidateSeparators}
          /\ ty = "u8"
          /\ bytes = <<>>
       \/ /\ api = "ParseFloatOptions"
          /\ value \in FloatFields
          /\ radix \in CandidateRadices
          /\ format \in {from_separator(ch, {}) : ch \in CandidateSeparators}
          /\ ty = "f32"
          /\ bytes = <<>>
       \/ /\ api = "from_lexical_radix"
          /\ value \in {"atoi", "atof"}
          /\ radix \in CandidateRadices
          /\ format = STANDARD
          /\ ty = IF value = "atoi" THEN "u8" ELSE "f32"
          /\ bytes \in {<<49>>, <<49, 48>>, <<>>, <<49, 120>>}
    /\ partial = Null
    /\ complete = Null

\* NumberFormatBuilder::build
BuildFormat ==
    /\ api = "NumberFormat"
    /\ complete = Null
    /\ complete' = build_format(value)
    /\ UNCHANGED <<api, ty, radix, format, bytes, value, partial>>

\* ParseIntegerOptions::create(radix, format)
CreateIntegerOptions ==
    /\ api = "ParseIntegerOptions"
    /\ complete = Null
    /\ complete' = ParseIntegerOptions_create(radix, format, value.features)
    /\ UNCHANGED <<api, ty, radix, format, bytes, value, partial>>

\* ParseFloatOptions::create(lossy, exponent_char, radix, format, rounding,
\* nan_string, inf_string, infinity_string)
CreateFloatOptions ==
    /\ api = "ParseFloatOptions"
    /\ complete = Null
    /\ complete' = ParseFloatOptions_create(value.lossy, value.exponent_char, radix, format,
                                            value.rounding, value.nan_string,
                                            value.inf_string, value.infinity_string,
                                            value.features)
    /\ UNCHANGED <<api, ty, radix, format, bytes, value, partial>>

\* T::from_lexical_radix(bytes, radix)
FromLexicalRadix ==
    /\ api = "from_lexical_radix"
    /\ complete = Null
    /\ complete' = from_lexical_radix(value, ty, bytes, radix)
    /\ UNCHANGED <<api, ty, radix, format, bytes, value, partial>>

NextOptions == BuildFormat \/ CreateIntegerOptions \/ CreateFloatOptions \/ FromLexicalRadix

SpecOptions == InitOptions /\ [][NextOptions]_vars

\* ------------------------------------------------------------------------
\* Runs of the extraction of the components.
\* ------------------------------------------------------------------------

MaxExtractLen == 5

\* '.', '0', '1' and 'e'.
ExtractAlphabet == {46, 48, 49, 101}

InitExtract ==
    /\ api = "extract"
    /\ ty = "f32"
    /\ radix = DEFAULT_RADIX
    /\ format = STANDARD
    /\ bytes \in SeqsUpTo(ExtractAlphabet, MaxExtractLen) \ {<<>>}
    /\ value = Null
    /\ partial = Null
    /\ complete = Null

\* data.extract(bytes, radix)
Extract ==
    /\ api = "extract"
    /\ value = Null
    /\ value' = extract(as_slice(bytes), radix)
    /\ UNCHANGED <<api, ty, radix, format, bytes, partial, complete>>

\* data.to_slow(0)
ToSlow ==
    /\ api = "extract"
    /\ value # Null /\ is_ok(value)
    /\ partial = Null
    /\ partial' = to_slow(value.data, 0)
    /\ UNCHANGED <<api, ty, radix, format, bytes, value, complete>>

NextExtract == Extract \/ ToSlow

SpecExtract == InitExtract /\ [][NextExtract]_vars

\* ------------------------------------------------------------------------
\* Number format: the 64-bit word.  A word is the set of its bits that are
\* set, bit 0 the lowest.
\* ------------------------------------------------------------------------

\* The bit of each flag.
FLAG_BITS ==
    [REQUIRED_INTEGER_DIGITS |-> 0,
     REQUIRED_FRACTION_DIGITS |-> 1,
     REQUIRED_EXPONENT_DIGITS |-> 2,
     NO_POSITIVE_MANTISSA_SIGN |-> 3,
     REQUIRED_MANTISSA_SIGN |-> 4,
     NO_EXPONENT_NOTATION |-> 5,
     NO_POSITIVE_EXPONENT_SIGN |-> 6,
     REQUIRED_EXPONENT_SIGN |-> 7,
     NO_EXPONENT_WITHOUT_FRACTION |-> 8,
     NO_SPECIAL |-> 9,
     CASE_SENSITIVE_SPECIAL |-> 10,
     NO_INTEGER_LEADING_ZEROS |-> 11,
     NO_FLOAT_LEADING_ZEROS |-> 12,
     REQUIRED_EXPONENT_NOTATION |-> 13,
     INTEGER_INTERNAL_DIGIT_SEPARATOR |-> 32,
     INTEGER_LEADING_DIGIT_SEPARATOR |-> 33,
     INTEGER_TRAILING_DIGIT_SEPARATOR |-> 34,
     INTEGER_CONSECUTIVE_DIGIT_SEPARATOR |-> 35,
     FRACTION_INTERNAL_DIGIT_SEPARATOR |-> 36,
     FRACTION_LEADING_DIGIT_SEPARATOR |-> 37,
     FRACTION_TRAILING_DIGIT_SEPARATOR |-> 38,
     FRACTION_CONSECUTIVE_DIGIT_SEPARATOR |-> 39,
     EXPONENT_INTERNAL_DIGIT_SEPARATOR |-> 40,
     EXPONENT_LEADING_DIGIT_SEPARATOR |-> 41,
     EXPONENT_TRAILING_DIGIT_SEPARATOR |-> 42,
     EXPONENT_CONSECUTIVE_DIGIT_SEPARATOR |-> 43,
     SPECIAL_DIGIT_SEPARATOR |-> 44]

FlagNames == DOMAIN FLAG_BITS

\* The bits of a u8.
u8_bits(ch) == {i \in 0..7 : (ch \div 2^i) % 2 = 1}

\* The u8 of the bits.
RECURSIVE u8_value(_, _)
u8_value(word, i) ==
    IF i > 7 THEN 0 ELSE (IF i \in word THEN 2^i ELSE 0) + u8_value(word, i + 1)

\* word << shift and word >> shift of a u64, and word as u8.
shl_u64(word, shift) == {i + shift : i \in word} \cap (0..63)
shr_u64(word, shift) == {i - shift : i \in {j \in word : j >= shift}}
as_u8(word) == word \cap (0..7)

\* Convert a character, shift and mask to flags: ((ch & mask) as u64) << shift
to_flags(ch, shift, mask) == shl_u64(u8_bits(ch) \cap u8_bits(mask), shift)

\* Convert a flag, shift and mask to a character: ((flag >> shift) as u8) & mask
from_flags_shift(flag, shift, mask) ==
    u8_value(as_u8(shr_u64(flag, shift)) \cap u8_bits(mask), 0)

EXPONENT_DECIMAL_SHIFT == 18
EXPONENT_DECIMAL_MASK == 127
EXPONENT_BACKUP_SHIFT == 25
EXPONENT_BACKUP_MASK == 127
DECIMAL_POINT_SHIFT == 50
DECIMAL_POINT_MASK == 127
DIGIT_SEPARATOR_SHIFT == 57
DIGIT_SEPARATOR_MASK == 127

exponent_decimal_to_flags(ch) == to_flags(ch, EXPONENT_DECIMAL_SHIFT, EXPONENT_DECIMAL_MASK)

exponent_decimal_from_flags(flag) ==
    from_flags_shift(flag, EXPONENT_DECIMAL_SHIFT, EXPONENT_DECIMAL_MASK)

\* A backup exponent packed one bit lower, on the last bit of the exponent.
exponent_backup_to_flags_low(ch) == to_flags(ch, EXPONENT_BACKUP_SHIFT - 1, EXPONENT_BACKUP_MASK)

exponent_backup_to_flags(ch) == to_flags(ch, EXPONENT_BACKUP_SHIFT, EXPONENT_BACKUP_MASK)

exponent_backup_from_flags(flag) ==
    from_flags_shift(flag, EXPONENT_BACKUP_SHIFT, EXPONENT_BACKUP_MASK)

decimal_point_to_flags(ch) == to_flags(ch, DECIMAL_POINT_SHIFT, DECIMAL_POINT_MASK)

decimal_point_from_flags(flag) == from_flags_shift(flag, DECIMAL_POINT_SHIFT, DECIMAL_POINT_MASK)

digit_separator_to_flags(ch) == to_flags(ch, DIGIT_SEPARATOR_SHIFT, DIGIT_SEPARATOR_MASK)

digit_separator_from_flags(flag) ==
    from_flags_shift(flag, DIGIT_SEPARATOR_SHIFT, DIGIT_SEPARATOR_MASK)

\* The word of the flags and of the four characters.
compile_word(flags, digit_separator, decimal_point, exponent_decimal, exponent_backup) ==
    {FLAG_BITS[flag] : flag \in flags}
        \cup digit_separator_to_flags(digit_separator)
        \cup decimal_point_to_flags(decimal_point)
        \cup exponent_decimal_to_flags(exponent_decimal)
        \cup exponent_backup_to_flags(exponent_backup)

\* The flags and the four characters of the word.
word_fields(word) ==
    [flags            |-> {flag \in FlagNames : FLAG_BITS[flag] \in word},
     digit_separator  |-> digit_separator_from_flags(word),
     decimal_point    |-> decimal_point_from_flags(word),
     exponent_decimal |-> exponent_decimal_from_flags(word),
     exponent_backup  |-> exponent_backup_from_flags(word)]

\* ------------------------------------------------------------------------
\* Runs of the packing of the word.
\* ------------------------------------------------------------------------

\* NUL, '*', 'U', DEL, '.', 'e', '^', '_' and a byte that is not ASCII.
PackedCharacters == {0, 42, 85, 127, 46, 101, 94, 95, 213}

\* No flag, each flag alone, and all the flags.
PackedFlags == {{}, FlagNames} \cup {{flag} : flag \in FlagNames}

\* The characters of the test of the hybrid word, and every choice of one
\* character for the four fields or of one field with the others NUL.
PackedFields ==
    {<<95, 46, 101, 94>>}
        \cup {<<ch, ch, ch, ch>> : ch \in PackedCharacters}
        \cup {[i \in 1..4 |-> IF i = k THEN ch ELSE 0] : k \in 1..4, ch \in PackedCharacters}
        \cup {[i \in 1..4 |-> IF i = k THEN 0 ELSE ch] : k \in 1..4, ch \in PackedCharacters}

InitPacking ==
    /\ api = "flags"
    /\ ty = "u64"
    /\ radix = DEFAULT_RADIX
    /\ \E flags \in PackedFlags, fields \in PackedFields :
           format = [flags |-> flags, digit_separator |-> fields[1],
                     decimal_point |-> fields[2], exponent_decimal |-> fields[3],
                     exponent_backup |-> fields[4]]
    /\ bytes = <<>>
    /\ value = Null
    /\ partial = Null
    /\ complete = Null

\* The flags and the characters to the word.
ToFlags ==
    /\ api = "flags"
    /\ value = Null
    /\ value' = Some(compile_word(format.flags, format.digit_separator, format.decimal_point,
                                  format.exponent_decimal, format.exponent_backup))
    /\ UNCHANGED <<api, ty, radix, format, bytes, partial, complete>>

\* The flags and the characters from the word.
FromFlags ==
    /\ api = "flags"
    /\ value # Null
    /\ partial = Null
    /\ partial' = Some(word_fields(value.value))
    /\ UNCHANGED <<api, ty, radix, format, bytes, value, complete>>

NextPacking == ToFlags \/ FromFlags

SpecPacking == InitPacking /\ [][NextPacking]_vars

\* ------------------------------------------------------------------------
\* Powers of two assigned straight from bits.  The bits of a float are the
\* set of the positions that are set, as a u64 does not fit the integers
\* of the model.
\* ------------------------------------------------------------------------

F64_MANTISSA_SIZE == 52
F64_EXPONENT_BIAS == 1075

\* The float type of the macro: its constants and the width of $unsigned.
float_type(t) ==
    IF t = "f32"
    THEN [EXPONENT_BIAS |-> EXPONENT_BIAS, MANTISSA_SIZE |-> MANTISSA_SIZE, BITS |-> 32]
    ELSE [EXPONENT_BIAS |-> F64_EXPONENT_BIAS, MANTISSA_SIZE |-> F64_MANTISSA_SIZE, BITS |-> 64]

\* The bits of a non-negative integer below 2^31.
unsigned_bits(n) == {i \in 0..30 : (n \div 2^i) % 2 = 1}

\* word << shift in an unsigned type of the given width.
shl_unsigned(word, shift, width) == {i + shift : i \in word} \cap (0..(width - 1))

\* A variant whose boundary of the denormal floats is one exp lower.
bitwise_pow2_normal_boundary(exp, float) ==
    IF exp < -(float.EXPONENT_BIAS - float.MANTISSA_SIZE)
    THEN shl_unsigned(unsigned_bits(1), exp + (float.EXPONENT_BIAS - 1), float.BITS)
    ELSE shl_unsigned(unsigned_bits(exp + (float.EXPONENT_BIAS - float.MANTISSA_SIZE)), float.MANTISSA_SIZE, float.BITS)

\* Calculate 2^exponent assigned straight from bits: MIN_EXP is
\* EXPONENT_BIAS - 1 and BIAS is EXPONENT_BIAS - MANTISSA_SIZE.
bitwise_pow2(exp, float) ==
    IF exp <= -(float.EXPONENT_BIAS - float.MANTISSA_SIZE)
    THEN shl_unsigned(unsigned_bits(1), exp + (float.EXPONENT_BIAS - 1), float.BITS)
    ELSE shl_unsigned(unsigned_bits(exp + (float.EXPONENT_BIAS - float.MANTISSA_SIZE)), float.MANTISSA_SIZE, float.BITS)

table_pow2(t, exp) == bitwise_pow2(exp, float_type(t))

\* The exponents of the round trips: from the smallest denormal float to
\* the largest power of two of the type.
pow2_exponents(t) ==
    (1 - float_type(t).EXPONENT_BIAS)..(float_type(t).EXPONENT_BIAS - float_type(t).MANTISSA_SIZE)

InitPow2 ==
    /\ api = "table_pow2"
    /\ ty \in {"f32", "f64"}
    /\ radix = 2
    /\ format = STANDARD
    /\ bytes = <<>>
    /\ partial \in {Some(e) : e \in pow2_exponents(ty)}
    /\ value = Null
    /\ complete = Null

\* T::table_pow2(exponent), the exponent of the call in partial.
TablePow2 ==
    /\ api = "table_pow2"
    /\ value = Null
    /\ value' = Some(table_pow2(ty, partial.value))
    /\ UNCHANGED <<api, ty, radix, format, bytes, partial, complete>>

NextPow2 == TablePow2

SpecPow2 == InitPow2 /\ [][NextPow2]_vars

\* ------------------------------------------------------------------------
\* Calls from several threads through the pointer ranges of the C API.
\* The memory of the callers is in bytes; partial holds the two calls,
\* each with its range [first, last) of the memory, and value their
\* results.  A call reads and writes the memory one byte at a time, and
\* the steps of the two calls interleave.
\* ------------------------------------------------------------------------

MemorySize == 6

\* The contents of the memory before the calls: '+' at every address, at
\* every second address or at every third address, and '1' elsewhere.
Memories ==
    {[a \in 1..MemorySize |-> IF (a - 1) % k = 0 THEN ASCII.plus ELSE ASCII.zero + 1] : k \in 1..3}

WrittenValues == {7, 42}

\* slice::from_raw_parts(first, distance(first, last))
slice_from_range(memory, p, q) == SubSeq(memory, p + 1, q)

\* The result of lexical_to_range: the pointer past the written bytes, and
\* the written bytes.
Written(q, written) == [tag |-> "Written", last |-> q, written |-> written]

\* The call run alone on the memory.
run_alone(memory, t, r, op, p, q, n) ==
    IF op = "parse"
    THEN atoi_complete(t, slice_from_range(memory, p, q), r)
    ELSE Written(p + Len(to_lexical_with_options(t, n, r)), to_lexical_with_options(t, n, r))

Call(op, p, q, n, alone) ==
    [op |-> op, first |-> p, last |-> q, n |-> n, index |-> 0, seen |-> <<>>, alone |-> alone]

\* The calls on a memory: a parse of any range, and a write of a value to a
\* range that holds every value of the type.
Calls(memory, t, r) ==
    {Call("parse", p, q, 0, run_alone(memory, t, r, "parse", p, q, 0))
        : p \in 0..MemorySize, q \in 0..MemorySize} \cup
    {Call("write", p, q, n, run_alone(memory, t, r, "write", p, q, n))
        : p \in 0..MemorySize, q \in 0..MemorySize, n \in WrittenValues}

valid_range(call, t) ==
    /\ call.first <= call.last
    /\ call.op = "write" => distance(call.first, call.last) >= FORMATTED_SIZE_DECIMAL(t)

InitThreads ==
    /\ api = "threads"
    /\ ty = "u8"
    /\ radix = DEFAULT_RADIX
    /\ format = STANDARD
    /\ bytes \in Memories
    /\ partial \in {<<a, b>> : a \in {c \in Calls(bytes, ty, radix) : valid_range(c, ty)}, b \in {c \in Calls(bytes, ty, radix) : valid_range(c, ty)}}
    /\ value = <<Null, Null>>
    /\ complete = Null

\* A store of the writer that takes the index for the address.
store_byte_at_index(memory, call, byte) == [memory EXCEPT ![call.index + 1] = byte]

\* bytes[index] = byte, in the slice of the call.
store_byte(memory, call, byte) == [memory EXCEPT ![call.first + call.index + 1] = byte]

\* bytes[index], in the slice of the call.
load_byte(memory, call) == memory[call.first + call.index + 1]

\* The parser reads the next byte of its slice.
ReadByte(i) ==
    /\ api = "threads"
    /\ partial[i].op = "parse"
    /\ partial[i].index < distance(partial[i].first, partial[i].last)
    /\ partial' = [partial EXCEPT ![i].seen = Append(@, load_byte(bytes, partial[i])), ![i].index = @ + 1]
    /\ UNCHANGED <<api, ty, radix, format, bytes, value, complete>>

\* lexical_from_range returns the result of the parse of the bytes read.
ReturnParsed(i) ==
    /\ api = "threads"
    /\ partial[i].op = "parse"
    /\ partial[i].index = distance(partial[i].first, partial[i].last)
    /\ value[i] = Null
    /\ value' = [value EXCEPT ![i] = atoi_complete(ty, partial[i].seen, radix)]
    /\ UNCHANGED <<api, ty, radix, format, bytes, partial, complete>>

\* The writer stores the next byte of the number in its slice.
WriteByte(i) ==
    /\ api = "threads"
    /\ partial[i].op = "write"
    /\ partial[i].index < Len(to_lexical_with_options(ty, partial[i].n, radix))
    /\ bytes' = store_byte(bytes, partial[i], to_lexical_with_options(ty, partial[i].n, radix)[partial[i].index + 1])
    /\ partial' = [partial EXCEPT ![i].index = @ + 1]
    /\ UNCHANGED <<api, ty, radix, format, value, complete>>

\* lexical_to_range returns the end of the written slice.
ReturnWritten(i) ==
    /\ api = "threads"
    /\ partial[i].op = "write"
    /\ partial[i].index = Len(to_lexical_with_options(ty, partial[i].n, radix))
    /\ value[i] = Null
    /\ value' = [value EXCEPT ![i] = Written(partial[i].first + partial[i].index, slice_from_range(bytes, partial[i].first, partial[i].first + partial[i].index))]
    /\ UNCHANGED <<api, ty, radix, format, bytes, partial, complete>>

NextThreads == \E i \in 1..2 : ReadByte(i) \/ ReturnParsed(i) \/ WriteByte(i) \/ ReturnWritten(i)

SpecThreads == InitThreads /\ [][NextThreads]_vars

\* ------------------------------------------------------------------------
\* Vocabulary of the properties.
\* ------------------------------------------------------------------------

\* Whether the type accepts the first byte of b as its sign.
HasSign(a, t, b) ==
    /\ b # <<>>
    /\ b[1] = ASCII.plus \/ (b[1] = ASCII.minus /\ (a = "atof" \/ IS_SIGNED(t)))

SignLength(a, t, b) == IF HasSign(a, t, b) THEN 1 ELSE 0

IsNegative(a, t, b) == HasSign(a, t, b) /\ b[1] = ASCII.minus

Prefix(b, n) == SubSeq(b, 1, n)

\* The value of the first n digits after the sign: sum of d_i * r^i.
RECURSIVE PositionalValue(_, _, _, _)
PositionalValue(b, k, r, n) ==
    IF n = 0 THEN 0 ELSE PositionalValue(b, k, r, n - 1) * r + to_digit(b[k + n], r)

SignedValue(a, t, b, r, n) ==
    IF IsNegative(a, t, b) THEN -PositionalValue(b, SignLength(a, t, b), r, n)
    ELSE PositionalValue(b, SignLength(a, t, b), r, n)

\* The number of digits of the radix that follow the sign.
DigitRun(a, t, b, r) ==
    CHOOSE n \in 0..(Len(b) - SignLength(a, t, b)) :
        /\ \A i \in 1..n : is_digit(b[SignLength(a, t, b) + i], r)
        /\ \/ SignLength(a, t, b) + n = Len(b)
           \/ ~is_digit(b[SignLength(a, t, b) + n + 1], r)

InRange(t, v) == v >= min_value(t) /\ v <= max_value(t)

\* The input is an optional sign and then digits only, at least one.
OnlyDigits(a, t, b, r) ==
    DigitRun(a, t, b, r) >= 1 /\ SignLength(a, t, b) + DigitRun(a, t, b, r) = Len(b)

\* ------------------------------------------------------------------------
\* Properties.
\* ------------------------------------------------------------------------

\* C1: the complete parse is determined by the partial parse: an error of the
\* partial parse is the error of the complete parse; a partial parse that
\* consumed the whole input gives its value; one that stopped at n < len(b)
\* gives InvalidDigit at n.
C1_CompleteFromPartial ==
    (partial # Null /\ complete # Null) =>
        /\ is_err(partial) => complete = partial
        /\ (is_ok(partial) /\ partial.index = Len(bytes)) => complete = Ok(partial.value)
        /\ (is_ok(partial) /\ partial.index < Len(bytes))
               => complete = Err("InvalidDigit", partial.index)

\* A float parse that stopped inside the input, after the number.
C1_Witness ==
    /\ api = "atof"
    /\ partial # Null /\ complete # Null
    /\ is_ok(partial) /\ partial.index > 0 /\ partial.index < Len(bytes)
    /\ complete = Err("InvalidDigit", partial.index)

\* C4: an optional sign and digits of the radix (letters of either case)
\* whose value fits the type parse to sign * sum(d_i * r^i), and the whole
\* input is consumed; the radix-r representation of 37 parses to 37.
C4_RadixValue ==
    api = "atoi" =>
        /\ (OnlyDigits(api, ty, bytes, radix)
                /\ InRange(ty, SignedValue(api, ty, bytes, radix, DigitRun(api, ty, bytes, radix))))
            => /\ partial # Null =>
                    partial = OkAt(SignedValue(api, ty, bytes, radix,
                                               DigitRun(api, ty, bytes, radix)), Len(bytes))
               /\ complete # Null =>
                    complete = Ok(SignedValue(api, ty, bytes, radix,
                                              DigitRun(api, ty, bytes, radix)))
        /\ (bytes = DATA[radix] /\ complete # Null) => complete = Ok(37)

\* "-zZ" in radix 36 parsed as an i16.
C4_Witness ==
    /\ api = "atoi" /\ ty = "i16" /\ radix = 36
    /\ bytes = <<ASCII.minus, ASCII.z, ASCII.Z>>
    /\ complete = Ok(-1295)
    /\ partial = OkAt(-1295, 3)

\* The number of digits after which the accumulated value first leaves the
\* range of the type, or 0 when it never does.
FirstOverflow(a, t, b, r) ==
    IF \E n \in 1..DigitRun(a, t, b, r) : ~InRange(t, SignedValue(a, t, b, r, n))
    THEN CHOOSE n \in 1..DigitRun(a, t, b, r) :
            /\ ~InRange(t, SignedValue(a, t, b, r, n))
            /\ \A m \in 1..(n - 1) : InRange(t, SignedValue(a, t, b, r, m))
    ELSE 0

C6_UnsignedMinus ==
    (/\ api = "atoi" /\ ~IS_SIGNED(ty)
     /\ Len(bytes) >= 2 /\ bytes[1] = ASCII.minus
     /\ \A i \in 2..Len(bytes) : is_digit(bytes[i], radix)
     /\ complete # Null)
        => complete = Err("InvalidDigit", 0)

\* "-1" parsed as a u8.
C6_Witness ==
    /\ api = "atoi" /\ ty = "u8" /\ radix = DEFAULT_RADIX
    /\ bytes = <<ASCII.minus, 49>>
    /\ complete = Err("InvalidDigit", 0)

\* C7: the empty input gives Empty at index 0, and an input that is only a
\* sign the type accepts gives Empty at index 1.
C7_EmptyInput ==
    /\ bytes = <<>> =>
        /\ partial # Null => partial = Err("Empty", 0)
        /\ complete # Null => complete = Err("Empty", 0)
    /\ (Len(bytes) = 1 /\ HasSign(api, ty, bytes)) =>
        /\ partial # Null => partial = Err("Empty", 1)
        /\ complete # Null => complete = Err("Empty", 1)

\* "-" parsed as a float.
C7_Witness ==
    /\ api = "atof" /\ bytes = <<ASCII.minus>>
    /\ partial = Err("Empty", 1)
    /\ complete = Err("Empty", 1)

\* A byte that can continue a number that is complete before it: a digit of
\* the radix, the decimal point or an exponent character.
Continues(a, c, r) ==
    \/ is_digit(c, r)
    \/ /\ a = "atof"
       /\ \/ c = DEFAULT_DECIMAL_POINT
          \/ to_ascii_lowercase(c) = to_ascii_lowercase(exponent(r))

\* The prefix of n bytes is followed in b by a byte that can continue it.
Continued(a, b, n, r) == n < Len(b) /\ Continues(a, b[n + 1], r)

\* C2 as stated: every prefix of the input that the complete parser accepts
\* with value v makes the partial parse of the input succeed with value v.
C2_PrefixMonotone ==
    partial # Null =>
        \A n \in 0..Len(bytes) :
            is_ok(parse(api, ty, Prefix(bytes, n), radix)) =>
                /\ is_ok(partial)
                /\ partial.value = parse(api, ty, Prefix(bytes, n), radix).value

\* C2: every prefix of the input that the complete parser accepts with value
\* v, and that is not followed in the input by a digit, a decimal point or an
\* exponent character, makes the partial parse of the input succeed with
\* value v.
C2_PrefixMonotoneDelimited ==
    partial # Null =>
        \A n \in 0..Len(bytes) :
            (/\ ~Continued(api, bytes, n, radix)
             /\ is_ok(parse(api, ty, Prefix(bytes, n), radix))) =>
                /\ is_ok(partial)
                /\ partial.value = parse(api, ty, Prefix(bytes, n), radix).value

\* "1a" parsed as an integer: the accepted prefix "1" gives the value.
C2_Witness ==
    /\ api = "atoi" /\ radix = DEFAULT_RADIX
    /\ bytes = <<49, 97>>
    /\ is_ok(parse(api, ty, Prefix(bytes, 1), radix))
    /\ partial = OkAt(1, 1)

\* A digit of the radix lies before index p of the input.
DigitConsumed(b, p, r) == \E i \in 1..p : is_digit(b[i], r)

\* C3 as stated: the partial parse fails only if no digit of the input was
\* consumed before parsing stopped.
C3_ErrOnlyWithoutDigit ==
    (partial # Null /\ is_err(partial)) => ~DigitConsumed(bytes, partial.index, radix)

\* C3: the partial parse fails only if no digit of the input was consumed
\* before parsing stopped, or the digits left the range of the integer type
\* (Overflow, Underflow), or an exponent character is followed by no
\* exponent digit (EmptyExponent).
C3_ErrOnlyWithoutDigitOrRange ==
    (partial # Null /\ is_err(partial)) =>
        \/ ~DigitConsumed(bytes, partial.index, radix)
        \/ api = "atoi" /\ partial.code \in {"Overflow", "Underflow"}
        \/ api = "atof" /\ partial.code = "EmptyExponent"

\* "0e" parsed as a float: a digit was consumed, and the exponent is empty.
C3_Witness ==
    /\ api = "atof"
    /\ bytes = <<48, 101>>
    /\ DigitConsumed(bytes, 2, radix)
    /\ partial = Err("EmptyExponent", 2)

\* The components of the number that follows the sign of the input.
Components(b, r) == extract(slice_from(as_slice(b), SignLength("atof", "f32", b)), r)

\* The input is an optional sign and then the syntax of a number, not the
\* name of a special value.
IsNumber(b, r) ==
    /\ Len(b) > SignLength("atof", "f32", b)
    /\ to_ascii_lowercase(b[SignLength("atof", "f32", b) + 1]) \notin {105, 110}
    /\ ~is_err(Components(b, r))

\* The significant digits of the number as an integer, and the power of the
\* radix that scales them: the magnitude is Digits * r^Scale.
Digits(b, r) ==
    LET data == Components(b, r).data
    IN  from_digits(data.integer.data
                        \o (IF data.fraction = None THEN <<>> ELSE data.fraction.data),
                    r, 1, <<>>)

Scale(b, r) ==
    LET data == Components(b, r).data
    IN  mantissa_exponent(data.raw_exponent,
                          IF data.fraction = None THEN 0 ELSE Len(data.fraction.data), 0)

\* The power of the radix of the first significant digit.
Decade(b, r) ==
    LET data == Components(b, r).data
    IN  scientific_exponent(data.raw_exponent, Len(data.integer.data), digits_start(data))

\* The sign of Digits * r^Scale - m * 2^k, for 2^-150 <= m * 2^k <= 2^128
\* and radix 10. A magnitude of at least 10^39 > 2^128 or below
\* 10^-46 < 2^-150 is placed without computing a power.
CompareMagnitude(b, r, m, k) ==
    IF Digits(b, r) = <<>> THEN -1
    ELSE IF Decade(b, r) >= 39 THEN 1
    ELSE IF Decade(b, r) <= -47 THEN -1
    ELSE Only({compare(ishl(imul_power(dv, r, Max(e, 0)), Max(-k, 0)),
                       imul_power(ishl(from_u32(m), Max(k, 0)), r, Max(-e, 0)))
               : dv \in {Digits(b, r)}, e \in {Scale(b, r)}})

\* The largest finite f32 is (2^24 - 1) * 2^104; half a unit in the last
\* place above it is (2^25 - 1) * 2^103. The smallest subnormal is 2^-149.
ExceedsMax(b, r) == CompareMagnitude(b, r, 2^24 - 1, 104) > 0
RoundsPastMax(b, r) == CompareMagnitude(b, r, 2^25 - 1, 103) >= 0
BelowMinSubnormal(b, r) == CompareMagnitude(b, r, 1, -149) < 0
AtMostHalfMinSubnormal(b, r) == CompareMagnitude(b, r, 1, -150) <= 0

NeverRangeError(res) == (res # Null /\ is_err(res)) => res.code \notin {"Overflow", "Underflow"}

\* C10 as stated: float parsing never returns Overflow or Underflow; a number
\* whose magnitude exceeds the largest finite value gives infinity with the
\* sign of the input, and one whose magnitude is below the smallest subnormal
\* gives zero with the sign of the input.
C10_SaturatesBeyondFinite ==
    api = "atof" =>
        /\ NeverRangeError(partial) /\ NeverRangeError(complete)
        /\ (partial # Null /\ is_ok(partial) /\ IsNumber(bytes, radix)) =>
            /\ ExceedsMax(bytes, radix)
                   => partial.value = Float(IsNegative(api, ty, bytes), INFINITY_BITS)
            /\ BelowMinSubnormal(bytes, radix)
                   => partial.value = Float(IsNegative(api, ty, bytes), 0)

\* C10: float parsing never returns Overflow or Underflow; a number whose
\* magnitude is at least half a unit in the last place above the largest
\* finite value gives infinity with the sign of the input, and one whose
\* magnitude is at most half the smallest subnormal gives zero with the sign
\* of the input.
C10_SaturatesWhenRounded ==
    api = "atof" =>
        /\ NeverRangeError(partial) /\ NeverRangeError(complete)
        /\ (partial # Null /\ is_ok(partial) /\ IsNumber(bytes, radix)) =>
            /\ RoundsPastMax(bytes, radix)
                   => partial.value = Float(IsNegative(api, ty, bytes), INFINITY_BITS)
            /\ AtMostHalfMinSubnormal(bytes, radix)
                   => partial.value = Float(IsNegative(api, ty, bytes), 0)

\* "-4e38" parsed as an f32: the digits are rounded, and the result is
\* negative infinity.
C10_Witness ==
    /\ api = "atof"
    /\ bytes = <<45, 52, 101, 51, 56>>
    /\ IsNumber(bytes, radix) /\ RoundsPastMax(bytes, radix)
    /\ Decade(bytes, radix) = 38
    /\ partial = OkAt(Float(TRUE, INFINITY_BITS), 5)

\* C8: the complete parse, in the same radix, of the bytes written for a
\* value of an integer type returns that value.
C8_IntegerRoundTrip ==
    (api = "itoa" /\ complete # Null) => complete = Ok(value)

\* The least i16 written in radix 36 and parsed back.
C8_Witness ==
    /\ api = "itoa" /\ ty = "i16" /\ radix = 36
    /\ value = min_value("i16")
    /\ bytes = <<ASCII.minus, 80, 65, 56>>
    /\ complete = Ok(value)

InBounds(res) ==
    /\ res.tag \in {"Ok", "OkAt", "Err"}
    /\ res.tag # "Ok" => res.index \in 0..Len(bytes)

\* C11: every parse returns Ok or Err, and the consumed count or the
\* error index it returns lies between 0 and the length of the input.
C11_IndexInBounds ==
    /\ partial # Null => InBounds(partial) /\ partial.tag # "Ok"
    /\ complete # Null => InBounds(complete) /\ complete.tag # "OkAt"

\* A byte that is not ASCII after a digit: the partial parse stops at it
\* and the complete parse reports it.
C11_Witness ==
    /\ api = "atof"
    /\ bytes = <<49, 200>>
    /\ partial = OkAt(Float(FALSE, 1065353216), 1)
    /\ complete = Err("InvalidDigit", 1)

SeparatorCount(b) == Cardinality({i \in 1..Len(b) : b[i] = Separator})

\* The index of the first digit separator of the bytes.
SeparatorAt(b) == CHOOSE i \in 1..Len(b) : b[i] = Separator /\ \A j \in 1..(i - 1) : b[j] # Separator

\* The bytes without their digit separators.
Unseparated(b) == SelectSeq(b, LAMBDA c : c # Separator)

\* Whether the bytes are one of the numbers, signed or not, with separators.
IsSeparatedNumber(b) ==
    Unseparated(b) \in {sg \o n : sg \in Signs, n \in IntegerNumbers \cup FloatNumbers}

\* The region of byte i: after the exponent marker, after the decimal
\* point, or before both.
RegionOf(b, i) ==
    IF \E j \in 1..i : b[j] = DEFAULT_EXPONENT_CHAR THEN "EXPONENT"
    ELSE IF \E j \in 1..i : b[j] = DEFAULT_DECIMAL_POINT THEN "FRACTION"
    ELSE "INTEGER"

\* The position of the run of k separators at byte i: leading when no digit
\* precedes it, internal between two digits, trailing after the last digit.
PositionOf(b, i, k) ==
    IF i = 1 \/ ~is_ascii_digit(b[i - 1]) THEN "leading"
    ELSE IF i + k <= Len(b) /\ is_ascii_digit(b[i + k]) THEN "internal"
    ELSE "trailing"

\* The flag of the region and position of the first run of k separators.
FlagOf(b, k) == DIGIT_SEPARATOR_FLAGS[RegionOf(b, SeparatorAt(b))][PositionOf(b, SeparatorAt(b), k)]

\* C13: with the digit separator '_' configured, a number with a single
\* separator is accepted by the complete parser if and only if the format
\* sets the flag of the region and position of that separator, whatever
\* other separator flags it sets, and an accepted number has the value of
\* the number without the separator.
C13_SingleSeparator ==
    (complete # Null /\ format \in SeparatorFormats
        /\ IsSeparatedNumber(bytes) /\ SeparatorCount(bytes) = 1) =>
        /\ is_ok(complete) <=> FlagOf(bytes, 1) \in format.flags
        /\ is_ok(complete) => complete = parse(api, ty, Unseparated(bytes), radix)

\* "3_1.0" parses to 31.0 with INTEGER_INTERNAL_DIGIT_SEPARATOR alone.
C13_Witness ==
    /\ api = "atof"
    /\ bytes = <<51, 95, 49, 46, 48>>
    /\ format = from_separator(Separator, {"INTEGER_INTERNAL_DIGIT_SEPARATOR"})
    /\ complete = Ok(Float(FALSE, 1106771968))

\* C14: a number with a run of two adjacent digit separators is accepted by
\* the complete parser only if the format sets the consecutive flag of the
\* region of the run in addition to the flag of its position.
C14_ConsecutiveSeparators ==
    (complete # Null /\ format \in SeparatorFormats
        /\ IsSeparatedNumber(bytes) /\ SeparatorCount(bytes) = 2
        /\ bytes[SeparatorAt(bytes) + 1] = Separator
        /\ is_ok(complete)) =>
        /\ FlagOf(bytes, 2) \in format.flags
        /\ DIGIT_SEPARATOR_FLAGS[RegionOf(bytes, SeparatorAt(bytes))].consecutive \in format.flags

\* "3__1" parses to 31 with the internal and the consecutive flag of the
\* integer region.
C14_Witness ==
    /\ api = "atoi"
    /\ bytes = <<51, 95, 95, 49>>
    /\ format = from_separator(Separator, {"INTEGER_INTERNAL_DIGIT_SEPARATOR",
                                            "INTEGER_CONSECUTIVE_DIGIT_SEPARATOR"})
    /\ complete = Ok(31)

\* The punctuation characters of a format.
PunctuationOf(fmt) ==
    {fmt.digit_separator, fmt.decimal_point, fmt.exponent_decimal, fmt.exponent_backup}

\* No punctuation character of the format is an ASCII digit or a sign.
NoDigitNoSign(fmt) == \A ch \in PunctuationOf(fmt) : ~is_ascii_digit(ch) /\ ~is_sign(ch)

C16_SeparatorCollision ==
    (api \in {"ParseIntegerOptions", "ParseFloatOptions"} /\ complete # Null
        /\ \/ is_digit(format.digit_separator, radix)
           \/ is_sign(format.digit_separator)
           \/ api = "ParseFloatOptions" /\ format.digit_separator = value.exponent_char) =>
        complete = None

\* Whether the fields of float options are the default ones.
DefaultFields ==
    /\ radix = DEFAULT_RADIX
    /\ format = STANDARD
    /\ value.exponent_char = DEFAULT_EXPONENT_CHAR
    /\ value.rounding = "NearestTieEven"
    /\ value.nan_string = DEFAULT_NAN_STRING
    /\ value.inf_string = DEFAULT_INF_STRING
    /\ value.infinity_string = DEFAULT_INFINITY_STRING

\* C17: the construction of float options gives no options when the radix
\* is outside 2..36 (or is not 10 without the radix feature), the exponent
\* character is a digit of the radix, the NaN string does not start with
\* 'N' or 'n', the Inf string does not start with 'I' or 'i', or the
\* Infinity string does not start with 'I' or 'i' or is shorter than the Inf
\* string; it gives options for the default fields.
C17_FloatOptionsValidation ==
    (api = "ParseFloatOptions" /\ complete # Null) =>
        /\ (\/ radix \notin 2..36
            \/ "radix" \notin value.features /\ radix # 10
            \/ is_digit(value.exponent_char, radix)
            \/ value.nan_string[1] \notin {78, 110}
            \/ value.inf_string[1] \notin {73, 105}
            \/ value.infinity_string[1] \notin {73, 105}
            \/ Len(value.infinity_string) < Len(value.inf_string)) => complete = None
        /\ DefaultFields =>
               /\ complete # None
               /\ complete.value.radix = radix
               /\ complete.value.exponent_char = value.exponent_char
               /\ complete.value.format = format

\* The radix 37 with the default fields otherwise gives no options.
C17_Witness ==
    /\ api = "ParseFloatOptions"
    /\ radix = 37
    /\ "radix" \in value.features
    /\ format = STANDARD
    /\ value.exponent_char = ASCII.caret
    /\ value.nan_string = DEFAULT_NAN_STRING
    /\ value.inf_string = DEFAULT_INF_STRING
    /\ value.infinity_string = DEFAULT_INFINITY_STRING
    /\ complete = None

\* C18 as stated: a radix outside 2..36 at the construction of options
\* panics.
C18_RadixPanics ==
    (api \in {"ParseIntegerOptions", "ParseFloatOptions", "from_lexical_radix"}
        /\ complete # Null /\ radix \notin 2..36) =>
        complete.tag = "Panic"

\* C18: a radix outside 2..36 gives no options at the construction of
\* options, and the entry points that build their options from a radix
\* panic on it: it never gives options, a parsed value or a parse error.
C18_RadixNoneOrPanic ==
    (api \in {"ParseIntegerOptions", "ParseFloatOptions", "from_lexical_radix"}
        /\ complete # Null /\ radix \notin 2..36) =>
        IF api = "from_lexical_radix" THEN complete.tag = "Panic" ELSE complete = None

\* from_lexical_radix(b"10", 37) panics.
C18_Witness ==
    /\ api = "from_lexical_radix"
    /\ value = "atoi"
    /\ radix = 37
    /\ bytes = <<49, 48>>
    /\ complete = Panic("Numerical base must be from 2-36.")

\* The bytes after the optional sign.
Body(b) == IF Len(b) > 0 /\ is_sign(b[1]) THEN SubSeq(b, 2, Len(b)) ELSE b

\* The bytes the matcher of the special values compares: without the digit
\* separators if the format lets them into the special values.
Keyword(b, fmt) ==
    IF "SPECIAL_DIGIT_SEPARATOR" \in fmt.flags
    THEN SelectSeq(b, LAMBDA c : c # fmt.digit_separator)
    ELSE b

\* Whether the bytes start with the string under the case policy of the
\* format.
StartsWith(b, string, fmt) ==
    /\ Len(b) >= Len(string)
    /\ \A i \in 1..Len(string) :
           IF "CASE_SENSITIVE_SPECIAL" \in fmt.flags THEN b[i] = string[i]
           ELSE to_ascii_lowercase(b[i]) = to_ascii_lowercase(string[i])

\* The length of the shortest prefix of the bytes that holds n compared bytes.
Through(b, fmt, n) ==
    CHOOSE m \in 0..Len(b) :
        /\ Len(Keyword(SubSeq(b, 1, m), fmt)) = n
        /\ \A k \in 0..(m - 1) : Len(Keyword(SubSeq(b, 1, k), fmt)) < n

\* The float with the sign of the bytes.
Signed(b, f) == IF Len(b) > 0 /\ b[1] = ASCII.minus THEN negate(f) ELSE f

\* C19: whenever special values are recognised and the bytes after the
\* optional sign start with the infinity string, the partial parser returns
\* infinity and consumes the whole infinity string, not only the inf string
\* it starts with; with the default format the partial parse of "infinity"
\* consumes 8 bytes and its complete parse is infinity.
C19_LongestFirst ==
    /\ (api = "atof" /\ partial # Null /\ format \in SpecialFormats \cup {STANDARD}
           /\ "NO_SPECIAL" \notin format.flags
           /\ StartsWith(Keyword(Body(bytes), format), DEFAULT_INFINITY_STRING, format)) =>
           partial = OkAt(Signed(bytes, INFINITY),
                          Len(bytes) - Len(Body(bytes))
                              + Through(Body(bytes), format, Len(DEFAULT_INFINITY_STRING)))
    /\ (api = "atof" /\ format = STANDARD /\ bytes = DEFAULT_INFINITY_STRING) =>
           /\ partial # Null => partial = OkAt(INFINITY, 8)
           /\ complete # Null => complete = Ok(INFINITY)

\* "infinity" with the default format: 8 bytes consumed, and infinity.
C19_Witness ==
    /\ api = "atof"
    /\ format = STANDARD
    /\ bytes = DEFAULT_INFINITY_STRING
    /\ partial = OkAt(INFINITY, 8)
    /\ complete = Ok(INFINITY)

\* Whether the bytes after the sign are a special string of the inputs with
\* separators, if any, embedded in it.
IsSpecialInput(b) ==
    /\ SelectSeq(Body(b), LAMBDA c : c # Separator) \in SpecialStrings
    /\ Body(b)[1] # Separator
    /\ Body(b)[Len(Body(b))] # Separator

\* Whether the format recognises the bytes as a special value.
Recognised(b, fmt) ==
    /\ "NO_SPECIAL" \notin fmt.flags
    /\ \E string \in {DEFAULT_NAN_STRING, DEFAULT_INF_STRING, DEFAULT_INFINITY_STRING} :
           /\ Len(Keyword(Body(b), fmt)) = Len(string)
           /\ StartsWith(Keyword(Body(b), fmt), string, fmt)

\* C20: the complete parser accepts a NaN, inf or infinity string if and
\* only if the format has no NO_SPECIAL flag and the bytes are the string,
\* compared without case unless CASE_SENSITIVE_SPECIAL is set and with
\* embedded digit separators skipped if and only if SPECIAL_DIGIT_SEPARATOR
\* is set; it then returns NaN or the signed infinity.
C20_SpecialFlags ==
    (api = "atof" /\ complete # Null /\ format \in SpecialFormats /\ IsSpecialInput(bytes)) =>
        /\ is_ok(complete) <=> Recognised(bytes, format)
        /\ is_ok(complete) => complete.value \in {Signed(bytes, NAN), Signed(bytes, INFINITY)}

\* "N_aN" is NaN with SPECIAL_DIGIT_SEPARATOR and CASE_SENSITIVE_SPECIAL.
C20_Witness ==
    /\ api = "atof"
    /\ format = from_separator(Separator, {"SPECIAL_DIGIT_SEPARATOR", "CASE_SENSITIVE_SPECIAL"})
    /\ bytes = <<78, 95, 97, 78>>
    /\ complete = Ok(NAN)

\* The bytes after the sign of a float input.
AfterSign(b) == SubSeq(b, SignLength("atof", "f32", b) + 1, Len(b))

\* Whether the bytes start with the string, letters compared without case.
StartsWithNoCase(b, string) ==
    /\ Len(b) >= Len(string)
    /\ \A i \in 1..Len(string) : to_ascii_lowercase(b[i]) = to_ascii_lowercase(string[i])

\* The bytes after the sign start with a special value of the default format.
IsSpecialValue(b) ==
    \E string \in {DEFAULT_NAN_STRING, DEFAULT_INF_STRING} : StartsWithNoCase(AfterSign(b), string)

\* The number of leading bytes of b that are decimal digits.
LeadingDigits(b) ==
    CHOOSE n \in 0..Len(b) :
        /\ \A i \in 1..n : is_digit(b[i], DEFAULT_RADIX)
        /\ n = Len(b) \/ ~is_digit(b[n + 1], DEFAULT_RADIX)

\* The bytes of b after the first n.
BytesAfter(b, n) == SubSeq(b, n + 1, Len(b))

\* A float input with a byte after the sign, no special value, no digit
\* where the integer is and no digit after a decimal point that follows.
NoMantissaDigit(b) ==
    /\ AfterSign(b) # <<>>
    /\ ~IsSpecialValue(b)
    /\ LeadingDigits(AfterSign(b)) = 0
    /\ AfterSign(b)[1] = DEFAULT_DECIMAL_POINT => LeadingDigits(BytesAfter(AfterSign(b), 1)) = 0

MantissaLength(b) ==
    IF LeadingDigits(b) < Len(b) /\ b[LeadingDigits(b) + 1] = DEFAULT_DECIMAL_POINT
    THEN LeadingDigits(b) + 1 + LeadingDigits(BytesAfter(b, LeadingDigits(b) + 1))
    ELSE LeadingDigits(b)

\* The number of digits of the mantissa at the start of b.
MantissaDigits(b) ==
    IF LeadingDigits(b) < Len(b) /\ b[LeadingDigits(b) + 1] = DEFAULT_DECIMAL_POINT
    THEN MantissaLength(b) - 1
    ELSE LeadingDigits(b)

\* The bytes of b after an optional sign at its start.
SkipSign(b) == IF b # <<>> /\ is_sign(b[1]) THEN BytesAfter(b, 1) ELSE b

\* A float input with a digit in its mantissa, then an exponent marker,
\* then no digit where the exponent digits are: nothing, or a byte that is
\* not a digit, after an optional sign.
NoExponentDigit(b) ==
    /\ MantissaDigits(AfterSign(b)) >= 1
    /\ MantissaLength(AfterSign(b)) < Len(AfterSign(b))
    /\ to_ascii_lowercase(AfterSign(b)[MantissaLength(AfterSign(b)) + 1]) = DEFAULT_EXPONENT_CHAR
    /\ LeadingDigits(SkipSign(BytesAfter(AfterSign(b), MantissaLength(AfterSign(b)) + 1))) = 0

\* The index of the byte after the exponent marker.
AfterMarker(b) == SignLength("atof", "f32", b) + MantissaLength(AfterSign(b)) + 1

\* C22: with the default format, a mantissa with a digit followed by an
\* exponent marker that no exponent digit follows (nothing, a lone sign, two
\* signs) gives EmptyExponent from the partial and from the complete parser,
\* at the index just after the marker when the marker ends the input: 2 for
\* "0e" and 4 for "0.0e".
C22_EmptyExponent ==
    (api = "atof" /\ radix = DEFAULT_RADIX /\ format = STANDARD /\ NoExponentDigit(bytes)) =>
        /\ partial # Null => is_err(partial) /\ partial.code = "EmptyExponent"
        /\ complete # Null => is_err(complete) /\ complete.code = "EmptyExponent"
        /\ (partial # Null /\ AfterMarker(bytes) = Len(bytes)) => partial.index = Len(bytes)
        /\ (complete # Null /\ AfterMarker(bytes) = Len(bytes)) => complete.index = Len(bytes)
        /\ (complete # Null /\ bytes = <<48, 101>>) => complete.index = 2
        /\ (complete # Null /\ bytes = <<48, 46, 48, 101>>) => complete.index = 4

\* "1e+-": two signs after the marker.
C22_Witness ==
    /\ api = "atof"
    /\ bytes = <<49, 101, ASCII.plus, ASCII.minus>>
    /\ partial = Err("EmptyExponent", 2)
    /\ complete = Err("EmptyExponent", 2)

\* The bytes after the exponent marker of a float input.
ExponentPart(b) == BytesAfter(AfterSign(b), MantissaLength(AfterSign(b)) + 1)

\* The float input has an exponent marker after its mantissa.
HasExponent(b) ==
    /\ MantissaLength(AfterSign(b)) < Len(AfterSign(b))
    /\ to_ascii_lowercase(AfterSign(b)[MantissaLength(AfterSign(b)) + 1]) = DEFAULT_EXPONENT_CHAR

\* The whole input is a number: an optional sign, a mantissa with a digit
\* and, if anything follows, an exponent marker, an optional sign and
\* digits to the end.
IsWholeNumber(b) ==
    /\ MantissaDigits(AfterSign(b)) >= 1
    /\ \/ MantissaLength(AfterSign(b)) = Len(AfterSign(b))
       \/ /\ HasExponent(b)
          /\ SkipSign(ExponentPart(b)) # <<>>
          /\ LeadingDigits(SkipSign(ExponentPart(b))) = Len(SkipSign(ExponentPart(b)))

\* The sign byte of the mantissa and of the exponent, or -1 for none.
MantissaSign(b) == IF HasSign("atof", "f32", b) THEN b[1] ELSE -1
ExponentSign(b) == IF is_sign(ExponentPart(b)[1]) THEN ExponentPart(b)[1] ELSE -1

\* Both parsers accept the input, or both give the error, the complete
\* one at the index.
Accepted == (partial # Null => is_ok(partial)) /\ (complete # Null => is_ok(complete))
RejectedWith(code) ==
    /\ partial # Null => is_err(partial) /\ partial.code = code
    /\ complete # Null => is_err(complete) /\ complete.code = code
RejectedAt(code, index) ==
    (partial # Null => partial = Err(code, index)) /\ (complete # Null => complete = Err(code, index))

\* C23: the sign flags hold for the sign of the mantissa and, apart from
\* it, for the sign of the exponent: with the no-positive-sign flag a '+'
\* is rejected and '-' and no sign are accepted; with the required-sign flag
\* no sign is rejected and '+' and '-' are accepted; the errors of the
\* mantissa sign are InvalidPositiveMantissaSign and MissingMantissaSign at
\* index 0.
C23_SignFlags ==
    (api = "atof" /\ IsWholeNumber(bytes)) =>
        /\ format = from_flag({"NO_POSITIVE_MANTISSA_SIGN"}) =>
              IF MantissaSign(bytes) = ASCII.plus
              THEN RejectedAt("InvalidPositiveMantissaSign", 0) ELSE Accepted
        /\ format = from_flag({"REQUIRED_MANTISSA_SIGN"}) =>
              IF MantissaSign(bytes) = -1
              THEN RejectedAt("MissingMantissaSign", 0) ELSE Accepted
        /\ (format = from_flag({"NO_POSITIVE_EXPONENT_SIGN"}) /\ HasExponent(bytes)) =>
              IF ExponentSign(bytes) = ASCII.plus
              THEN RejectedWith("InvalidPositiveExponentSign") ELSE Accepted
        /\ (format = from_flag({"REQUIRED_EXPONENT_SIGN"}) /\ HasExponent(bytes)) =>
              IF ExponentSign(bytes) = -1
              THEN RejectedWith("MissingExponentSign") ELSE Accepted

\* "+1e+1" with NO_POSITIVE_MANTISSA_SIGN: the sign of the mantissa is
\* rejected, with a '+' in the exponent that the format permits.
C23_Witness ==
    /\ api = "atof"
    /\ format = from_flag({"NO_POSITIVE_MANTISSA_SIGN"})
    /\ bytes = <<ASCII.plus, 49, 101, ASCII.plus, 49>>
    /\ partial = Err("InvalidPositiveMantissaSign", 0)
    /\ complete = Err("InvalidPositiveMantissaSign", 0)

\* The format forbids leading zeros for the kind of number that is parsed.
NoLeadingZeros(a, fmt) ==
    \/ fmt = JSON
    \/ a = "atoi" /\ fmt = from_flag({"NO_INTEGER_LEADING_ZEROS"})
    \/ a = "atof" /\ fmt = from_flag({"NO_FLOAT_LEADING_ZEROS"})

\* A decimal point of the float input has a digit after it.
FractionHasDigit(b) ==
    MantissaLength(AfterSign(b)) > LeadingDigits(AfterSign(b))
        => MantissaLength(AfterSign(b)) > LeadingDigits(AfterSign(b)) + 1

\* The whole input is a number of the kind with a digit in its integer part
\* and in every other part that is present, and no '+' before it in JSON.
IsStrictNumber(a, t, b, fmt) ==
    /\ IF a = "atoi" THEN OnlyDigits(a, t, b, DEFAULT_RADIX)
       ELSE IsWholeNumber(b) /\ FractionHasDigit(b)
    /\ LeadingDigits(AfterSign(b)) >= 1
    /\ fmt = JSON => MantissaSign(b) # ASCII.plus

\* C24: with the no-leading-zeros flag of the kind that is parsed (both are
\* set in the JSON format), an integer part of two digits or more that
\* begins with '0' is rejected with InvalidLeadingZeros, with a sign before
\* it or without; a lone "0" and an integer part that does not begin with
\* '0' are accepted.
C24_LeadingZeros ==
    (NoLeadingZeros(api, format) /\ IsStrictNumber(api, ty, bytes, format)) =>
        IF LeadingDigits(AfterSign(bytes)) >= 2 /\ AfterSign(bytes)[1] = ASCII.zero
        THEN RejectedWith("InvalidLeadingZeros")
        ELSE Accepted

\* "-012.0" in the JSON format.
C24_Witness ==
    /\ api = "atof"
    /\ format = JSON
    /\ bytes = <<ASCII.minus, 48, 49, 50, 46, 48>>
    /\ partial = Err("InvalidLeadingZeros", 1)
    /\ complete = Err("InvalidLeadingZeros", 1)

\* The float input has a decimal point after its integer digits.
HasPoint(b) == MantissaLength(AfterSign(b)) > LeadingDigits(AfterSign(b))

\* The float input has an integer digit and a decimal point that no digit
\* follows.
EmptyFractionPart(b) ==
    /\ LeadingDigits(AfterSign(b)) >= 1
    /\ HasPoint(b)
    /\ MantissaLength(AfterSign(b)) = LeadingDigits(AfterSign(b)) + 1

\* The float input has a decimal point that no integer digit precedes.
EmptyIntegerPart(b) == LeadingDigits(AfterSign(b)) = 0 /\ HasPoint(b)

\* The integer digits of the input begin with '0' and go on.
LeadingZero(b) == LeadingDigits(AfterSign(b)) >= 2 /\ AfterSign(b)[1] = ASCII.zero

\* C25: a region that the format requires digits in is rejected when it is
\* there without a digit: with REQUIRED_INTEGER_DIGITS a decimal point with
\* no integer digit before it (".0") is an error; with
\* REQUIRED_FRACTION_DIGITS, as in JSON, a decimal point with no digit after
\* it ("3.", "1.") is the error EmptyFraction, and a number with no decimal
\* point ("3") is accepted.
C25_RequiredDigits ==
    api = "atof" =>
        /\ ("REQUIRED_INTEGER_DIGITS" \in format.flags /\ EmptyIntegerPart(bytes)) =>
              /\ partial # Null => is_err(partial)
              /\ complete # Null => is_err(complete)
        /\ ("REQUIRED_FRACTION_DIGITS" \in format.flags /\ EmptyFractionPart(bytes)
                /\ ~LeadingZero(bytes)) =>
              RejectedWith("EmptyFraction")
        /\ (format \in {from_flag({"REQUIRED_FRACTION_DIGITS"}), from_flag(REQUIRED_DIGITS)}
                /\ IsWholeNumber(bytes) /\ ~HasPoint(bytes)) =>
              Accepted

\* "1." in the JSON format.
C25_Witness ==
    /\ api = "atof"
    /\ format = JSON
    /\ bytes = <<49, 46>>
    /\ partial = Err("EmptyFraction", 2)
    /\ complete = Err("EmptyFraction", 2)

MantissaSignFlags == {"NO_POSITIVE_MANTISSA_SIGN", "REQUIRED_MANTISSA_SIGN"}

MantissaSignErrors == {"InvalidPositiveMantissaSign", "MissingMantissaSign"}

\* The partial parse of the input with the format without its flags of the
\* mantissa sign: the parse of the number itself.
NumberParse(b, r, fmt) ==
    parse_partial_format("atof", "f32", b, r, from_flag(fmt.flags \ MantissaSignFlags))

\* C27: the flags of the mantissa sign are checked only after the number is
\* parsed: an input whose number does not parse gives the error of the
\* number, with or without a sign that the format forbids or requires, and
\* an error of the sign is given only for a number that parses; "+." with
\* NO_POSITIVE_MANTISSA_SIGN and "." with REQUIRED_MANTISSA_SIGN give
\* EmptyMantissa.
C27_SignAfterNumber ==
    (api = "atof" /\ format.flags \cap MantissaSignFlags # {}) =>
        /\ (partial # Null /\ is_err(NumberParse(bytes, radix, format)))
              => partial = NumberParse(bytes, radix, format)
        /\ (partial # Null /\ is_err(partial) /\ partial.code \in MantissaSignErrors)
              => is_ok(NumberParse(bytes, radix, format))
        /\ (complete # Null /\ is_err(complete) /\ complete.code \in MantissaSignErrors)
              => is_ok(NumberParse(bytes, radix, format))
        /\ (format.flags \subseteq MantissaSignFlags /\ NoMantissaDigit(bytes))
              => RejectedAt("EmptyMantissa", SignLength(api, ty, bytes))

\* "+." with NO_POSITIVE_MANTISSA_SIGN: the sign is forbidden and the number
\* has no digit.
C27_Witness ==
    /\ api = "atof"
    /\ format = from_flag({"NO_POSITIVE_MANTISSA_SIGN"})
    /\ bytes = <<ASCII.plus, 46>>
    /\ partial = Err("EmptyMantissa", 1)
    /\ complete = Err("EmptyMantissa", 1)

\* The bits of the field of the word that starts at the shift.
FieldBits(shift, mask) == to_flags(255, shift, mask)

CharacterFields ==
    {FieldBits(EXPONENT_DECIMAL_SHIFT, EXPONENT_DECIMAL_MASK),
     FieldBits(EXPONENT_BACKUP_SHIFT, EXPONENT_BACKUP_MASK),
     FieldBits(DECIMAL_POINT_SHIFT, DECIMAL_POINT_MASK),
     FieldBits(DIGIT_SEPARATOR_SHIFT, DIGIT_SEPARATOR_MASK)}

\* The four characters of the format are 7-bit ASCII.
SevenBit(fmt) ==
    \A ch \in {fmt.digit_separator, fmt.decimal_point, fmt.exponent_decimal,
               fmt.exponent_backup} : ch < 128

\* C28: the packing of the characters into the word loses nothing and
\* touches nothing else: the four fields of seven bits are disjoint from
\* one another and from the bit of every flag, and for 7-bit characters and
\* any flags each character read from the word is the character that was
\* stored and the flags of the word are the flags that were set.
C28_PackingLossless ==
    api = "flags" =>
        /\ \A x \in CharacterFields :
               /\ Cardinality(x) = 7
               /\ \A y \in CharacterFields \ {x} : x \cap y = {}
               /\ \A flag \in FlagNames : FLAG_BITS[flag] \notin x
        /\ Cardinality(CharacterFields) = 4
        /\ (partial # Null /\ SevenBit(format)) => partial.value = format
        /\ partial # Null => partial.value.flags = format.flags

\* The word of the test: '_', '.', 'e' and '^' with every flag set.
C28_Witness ==
    /\ api = "flags"
    /\ format.flags = FlagNames
    /\ value = Some(compile_word(FlagNames, 95, 46, 101, 94))
    /\ partial = Some([flags |-> FlagNames, digit_separator |-> 95, decimal_point |-> 46,
                       exponent_decimal |-> 101, exponent_backup |-> 94])

\* The bytes without their leading zeros and without their trailing zeros.
StripLeadingZeros(b) == BytesAfter(b, leading_zeros(b))
StripTrailingZeros(b) == SubSeq(b, 1, Len(b) - trailing_zeros(b))

\* The digits of the integer and of the fraction of an input without sign.
IntegerOf(b) == SubSeq(b, 1, LeadingDigits(b))
FractionOf(b) ==
    IF LeadingDigits(b) < Len(b) /\ b[LeadingDigits(b) + 1] = DEFAULT_DECIMAL_POINT
    THEN SubSeq(b, LeadingDigits(b) + 2, MantissaLength(b))
    ELSE <<>>

\* The significant digits of the input: the digits of its mantissa from
\* the first that is not zero, without the trailing zeros of the fraction.
SignificantDigits(b) == StripLeadingZeros(IntegerOf(b) \o StripTrailingZeros(FractionOf(b)))

\* C29: after a successful extract the integer that is stored has no
\* leading zero and the fraction that is stored has no trailing zero;
\* digits_start is the number of leading zeros of the stored fraction when
\* the stored integer is empty and 0 otherwise; and the mantissa digit
\* count, the integer digits and the fraction digits from digits_start on,
\* is the number of significant digits of the input.
C29_TrimmedDigits ==
    (api = "extract" /\ value # Null /\ is_ok(value)) =>
        /\ value.data.integer.data = StripLeadingZeros(IntegerOf(bytes))
        /\ value.data.integer.data # <<>> => value.data.integer.data[1] # ASCII.zero
        /\ value.data.fraction # None =>
              /\ value.data.fraction.data = StripTrailingZeros(FractionOf(bytes))
              /\ value.data.fraction.data # <<>>
                    => value.data.fraction.data[Len(value.data.fraction.data)] # ASCII.zero
        /\ partial # Null =>
              /\ partial.digits_start =
                     IF value.data.integer.data = <<>>
                     THEN leading_zeros(partial.fraction.data) ELSE 0
              /\ mantissa_digits(partial) = Len(SignificantDigits(bytes))

\* "00.010": the integer is trimmed to nothing, the fraction to "01", and
\* one digit is significant.
C29_Witness ==
    /\ api = "extract"
    /\ bytes = <<48, 48, 46, 48, 49>>
    /\ value # Null /\ is_ok(value)
    /\ value.data.integer.data = <<>>
    /\ value.data.fraction.data = <<48, 49>>
    /\ partial # Null
    /\ partial.digits_start = 1
    /\ mantissa_digits(partial) = 1

\* The fields of the bits of a float: the sign, the exponent field as a
\* number and the bits of the mantissa field.
SignBit(b, t) == (float_type(t).BITS - 1) \in b
ExponentField(b, t) ==
    LET F == float_type(t)
        e == {i - F.MANTISSA_SIZE : i \in {j \in b : j >= F.MANTISSA_SIZE /\ j < F.BITS - 1}}
        RECURSIVE Sum(_)
        Sum(S) == IF S = {} THEN 0 ELSE LET x == CHOOSE y \in S : TRUE IN 2^x + Sum(S \ {x})
    IN Sum(e)
MantissaField(b, t) == {i \in b : i < float_type(t).MANTISSA_SIZE}

\* The exponent of the largest field of a finite float, and the smallest
\* exponent of a normal float.
MaxExponentField(t) == 2^(float_type(t).BITS - 1 - float_type(t).MANTISSA_SIZE) - 2
MinNormalExponent(t) == 1 - (float_type(t).EXPONENT_BIAS - float_type(t).MANTISSA_SIZE)

\* The float of the bits is 2^e: it is positive and finite, and its
\* significand (the mantissa field, with the hidden bit of a normal float)
\* has one bit, whose weight is 2^e.
IsPowerOfTwo(b, t, e) ==
    LET F == float_type(t)
        field == ExponentField(b, t)
        significand == MantissaField(b, t) \cup (IF field = 0 THEN {} ELSE {F.MANTISSA_SIZE})
        unit == (IF field = 0 THEN 1 ELSE field) - F.EXPONENT_BIAS
    IN /\ ~SignBit(b, t)
       /\ field <= MaxExponentField(t)
       /\ \E i \in significand : significand = {i} /\ i + unit = e

\* C30: for every exponent e of the representable range of the type
\* (-149..=127 for f32, -1074..=1023 for f64), table_pow2(e) is the float
\* whose bits encode 2^e: below the smallest exponent of a normal float a
\* single bit of the mantissa with a zero exponent field, and otherwise
\* the biased exponent in the exponent field with a zero mantissa.
C30_Pow2Bits ==
    (api = "table_pow2" /\ value # Null) =>
        /\ IsPowerOfTwo(value.value, ty, partial.value)
        /\ partial.value < MinNormalExponent(ty) =>
              /\ ExponentField(value.value, ty) = 0
              /\ Cardinality(MantissaField(value.value, ty)) = 1
        /\ partial.value >= MinNormalExponent(ty) =>
              /\ MantissaField(value.value, ty) = {}
              /\ ExponentField(value.value, ty)
                     = partial.value + float_type(ty).EXPONENT_BIAS - float_type(ty).MANTISSA_SIZE

\* 2^-127 as f32, the largest power of two that is denormal: bit 22 alone.
C30_Witness ==
    /\ api = "table_pow2"
    /\ ty = "f32"
    /\ partial = Some(-127)
    /\ value = Some({22})

\* The ranges of the two calls have no address in common.
DisjointBuffers ==
    \/ partial[1].last <= partial[2].first
    \/ partial[2].last <= partial[1].first

====
